---- MODULE Spec2Model ----
(***************************************************************************)
(* Model of the session-scoped protocol gateway of mcp-google-assistant:   *)
(* the session registry (transports, sessionHeaders), the /mcp request     *)
(* handlers, the bearer-credential extractor, the client factories and     *)
(* the tool handlers' error wrapping.                                      *)
(*                                                                         *)
(* Strings the code inspects character by character (authorization         *)
(* values, tokens) are sequences of one-character strings, so that         *)
(* startsWith and substring are computed and not assumed.                  *)
(***************************************************************************)
EXTENDS Integers, Sequences, FiniteSets

VARIABLES transports, sessionHeaders, nextId, tr, inv, resp
\* one operation of a service object seen on its own: the invocation and
\* the upstream calls it has issued, in order
VARIABLES svc, wire
\* the text helpers of the mail client seen on their own: one call of
\* truncateText (and a second one on its result), one call of
\* extractTextContent
VARIABLES trunc, extract
\* one call of the datetime_converter tool seen on its own
VARIABLES conv
\* two decline-event invocations on one event seen on their own: the
\* invocations, and the attendee list the calendar holds for the event
VARIABLES dec, cal

\* the state of the gateway
gatewayVars == <<transports, sessionHeaders, nextId, tr, inv, resp>>
\* the state of a service operation, of the text helpers, of the converter
\* tool and of the concurrent declines, each observed on its own
libVars == <<svc, wire, trunc, extract, conv, dec, cal>>

vars == <<gatewayVars, libVars>>

\* nothing but the gateway is observed
LibIdle ==
    /\ svc = [pc |-> "none"]
    /\ wire = <<>>
    /\ trunc = [pc |-> "none"]
    /\ extract = [pc |-> "none"]
    /\ conv = [pc |-> "none"]
    /\ dec = <<>>
    /\ cal = <<>>

(***************************************************************************)
(* Bounds of the model.                                                    *)
(***************************************************************************)
\* number of initialization requests (session ids minted) in one run
MaxSessions == 2
\* number of tool invocations that can be in flight at once
MaxInv == 1

(***************************************************************************)
(* Strings.                                                                *)
(***************************************************************************)
\* 'Bearer ' as the code writes it in startsWith('Bearer ')
BearerPrefix == <<"B", "e", "a", "r", "e", "r", " ">>

\* the argument of substring(7)
BearerPrefixLength == 7

\* String.prototype.startsWith
StartsWith(s, p) == Len(s) >= Len(p) /\ SubSeq(s, 1, Len(p)) = p

\* String.prototype.substring(n): the characters from index n (0-based) on
Substring(s, n) == SubSeq(s, n + 1, Len(s))

TokenT1 == <<"T", "1">>
TokenT2 == <<"T", "2">>

(***************************************************************************)
(* Header values: string | string[] | undefined.                           *)
(***************************************************************************)
HUndef == [kind |-> "undefined", s |-> <<>>, l |-> <<>>]
HStr(x) == [kind |-> "string", s |-> x, l |-> <<>>]
HList(xs) == [kind |-> "list", s |-> <<>>, l |-> xs]

\* JavaScript truthiness of a header value: undefined and '' are falsy,
\* every array (the empty one too) is truthy
Truthy(v) == v.kind = "list" \/ (v.kind = "string" /\ v.s # <<>>)

\* a header mapping, restricted to the two entries the gateway reads
Headers(lower, upper) == [authorization |-> lower, Authorization |-> upper]

\* string | null
Null == [isNull |-> TRUE, s |-> <<>>]
Some(x) == [isNull |-> FALSE, s |-> x]

\* a variant that takes the bearer value from whichever casing carries one
extractBearerToken_EitherCasing(headers) ==
    LET first(v) == IF v.kind = "list"
                    THEN (IF Len(v.l) > 0 THEN HStr(v.l[1]) ELSE HUndef)
                    ELSE v
        bearer(v) == Truthy(first(v)) /\ StartsWith(first(v).s, BearerPrefix)
    IN  IF bearer(headers.authorization)
        THEN Some(Substring(first(headers.authorization).s, BearerPrefixLength))
        ELSE IF bearer(headers.Authorization)
        THEN Some(Substring(first(headers.Authorization).s, BearerPrefixLength))
        ELSE Null

\* extractBearerToken(headers)
extractBearerToken(headers) ==
    LET authHeader == IF Truthy(headers.authorization)
                      THEN headers.authorization
                      ELSE headers.Authorization
        authValue == IF authHeader.kind = "list"
                     THEN (IF Len(authHeader.l) > 0
                           THEN HStr(authHeader.l[1])
                           ELSE HUndef)
                     ELSE authHeader
    IN  IF ~Truthy(authHeader)
        THEN Null
        ELSE IF ~Truthy(authValue) \/ ~StartsWith(authValue.s, BearerPrefix)
             THEN Null
             ELSE Some(Substring(authValue.s, BearerPrefixLength))

(***************************************************************************)
(* Typed service errors and client construction.                           *)
(***************************************************************************)
\* the tools of the model: one mail tool and one calendar tool
Tools == {"gmail_get_details", "gcalendar_decline_event"}

\* the error class the service behind a tool throws
ServiceErrorClass(tool) ==
    IF tool = "gmail_get_details" THEN "GmailServiceError"
                                  ELSE "GCalendarServiceError"

\* outcome of building a client: a bound token or a typed error
Built(token) == [ok |-> TRUE, tok |-> token, code |-> ""]
Failed(code) == [ok |-> FALSE, tok |-> <<>>, code |-> code]

\* new GmailService(token) / new GCalendarService(token)
ServiceConstructor(accessToken) ==
    IF accessToken = <<>> THEN Failed("MISSING_ACCESS_TOKEN")
                          ELSE Built(accessToken)

\* GmailService.fromBearerToken / GCalendarService.fromBearerToken
fromBearerToken(bearerToken) ==
    IF bearerToken = <<>>
    THEN Failed("MISSING_BEARER_TOKEN")
    ELSE LET token == IF StartsWith(bearerToken, BearerPrefix)
                      THEN Substring(bearerToken, BearerPrefixLength)
                      ELSE bearerToken
         IN  IF token = <<>> THEN Failed("INVALID_BEARER_TOKEN")
                             ELSE ServiceConstructor(token)

(***************************************************************************)
(* The session registry.                                                   *)
(*   transports     : own keys of the transports object -> transport       *)
(*   sessionHeaders : own keys of the sessionHeaders object -> headers     *)
(* Both are plain JavaScript objects, so a lookup by a key that is not an  *)
(* own key still finds the members inherited from Object.prototype.        *)
(***************************************************************************)
\* the ids randomUUID() returns, in the order they are minted
IdPool == [n \in 1..MaxSessions |-> <<"session", n>>]

Ids == {IdPool[n] : n \in 1..MaxSessions}

\* req.headers['mcp-session-id'] when the header is absent
NoSessionId == <<"undefined">>

\* a key every plain object inherits from Object.prototype
ObjectPrototypeKeys == {<<"constructor">>}

\* the values of the mcp-session-id header the clients send
RequestKeys == Ids \cup ObjectPrototypeKeys \cup {NoSessionId}

\* !sessionId
Falsy(k) == k = NoSessionId

\* whether transports[k] is truthy: an own entry or an inherited member
TransportsLookup(k) == k \in DOMAIN transports \/ k \in ObjectPrototypeKeys

\* the request headers of the model
H_T1 == Headers(HStr(BearerPrefix \o TokenT1), HUndef)
H_T2 == Headers(HStr(BearerPrefix \o TokenT2), HUndef)
H_None == Headers(HUndef, HUndef)

HeaderSet == {H_T1, H_T2, H_None}

\* the headers of the requests sent with session id k
HeadersSentWith(k) == IF k \in ObjectPrototypeKeys THEN {H_T1} ELSE HeaderSet

\* POST bodies: an initialization message, a tools/call, anything else
Bodies == {"initialize", "tools/call", "other"}

\* isInitializeRequest(req.body)
isInitializeRequest(body) == body = "initialize"

\* obj[k] = v on a plain object
Put(obj, k, v) == [x \in DOMAIN obj \cup {k} |-> IF x = k THEN v ELSE obj[x]]

\* delete obj[k]
Delete(obj, k) == [x \in DOMAIN obj \ {k} |-> obj[x]]

\* a variant that merges the request's headers into the stored ones
Overwrite_Merging(k, h) ==
    Put(sessionHeaders, k,
        IF k \in DOMAIN sessionHeaders
        THEN [f \in DOMAIN h |-> IF h[f].kind = "undefined"
                                 THEN sessionHeaders[k][f]
                                 ELSE h[f]]
        ELSE h)

\* sessionHeaders[sessionId] = req.headers
Overwrite(k, h) == Put(sessionHeaders, k, h)

(***************************************************************************)
(* Tool invocations.  A slot holds one invocation of a tool handler:       *)
(*   dispatched : handed to the transport, handler not yet run             *)
(*   awaiting   : client built, suspended on upstream call number `calls`  *)
(*   done/failed: the handler returned or threw                            *)
(* req, prev and stale are history: the headers of the request that        *)
(* carried the call, the headers that request replaced, and whether a      *)
(* later request of the session arrived before the handler ran.            *)
(***************************************************************************)
Slots == 1..MaxInv

NoArgs == [maxWords |-> 0]

Idle == [pc |-> "idle", sid |-> NoSessionId, tool |-> "none", args |-> NoArgs,
         req |-> H_None, prev |-> H_None, stale |-> FALSE, ext |-> Null, tok |-> <<>>,
         calls |-> 0, code |-> "", msg |-> <<>>]

\* what the request handler of this step did with the request that carried
\* session id `key`: started an initialization ("accepted"), handed the
\* request to the transport ("handed"), answered it itself ("400", "500"),
\* or let an exception escape ("unhandled"); "none" in a step that is not
\* the arrival of a request
Response(status, k) == [status |-> status, key |-> k]

NoResponse == Response("none", NoSessionId)

\* transport objects, one per initialization request
NoTransport == [phase |-> "none", hdr |-> H_None, sessionId |-> NoSessionId]

\* the gateway before its first request
GatewayInit ==
    /\ transports = [k \in {} |-> 0]
    /\ sessionHeaders = [k \in {} |-> H_None]
    /\ nextId = 0
    /\ tr = [n \in 1..MaxSessions |-> NoTransport]
    /\ inv = [i \in Slots |-> Idle]
    /\ resp = NoResponse

Init ==
    /\ GatewayInit
    /\ LibIdle

(***************************************************************************)
(* POST /mcp                                                               *)
(***************************************************************************)
\* history: a request of session k arrived while these were not yet run
MarkStale(k) ==
    [i \in Slots |-> IF inv[i].pc = "dispatched" /\ inv[i].sid = k
                     THEN [inv[i] EXCEPT !.stale = TRUE]
                     ELSE inv[i]]

\* the argument mappings the gateway schema of a tool accepts
\* (gmail_get_details: maxWords min 300, max 3000, default 1000)
GatewayArgs(tool) ==
    IF tool = "gmail_get_details"
    THEN {[maxWords |-> w] : w \in {1000, 3000}}
    ELSE {NoArgs}

\* the reuse branch: sessionId && transports[sessionId]
PostReuse(k, h, body) ==
    /\ ~Falsy(k)
    /\ TransportsLookup(k)
    /\ sessionHeaders' = Overwrite(k, h)
    /\ IF k \in DOMAIN transports
       THEN \* transport.handleRequest(req, res, req.body)
            /\ resp' = Response("handed", k)
            /\ IF body = "tools/call"
               THEN \E i \in Slots :
                      /\ inv[i].pc = "idle"
                      /\ inv' = [MarkStale(k) EXCEPT ![i] =
                                   [Idle EXCEPT !.pc = "dispatched",
                                                !.sid = k,
                                                !.req = h,
                                                !.prev = sessionHeaders[k]]]
               ELSE inv' = MarkStale(k)
       ELSE \* the inherited member has no handleRequest: TypeError, caught
            /\ resp' = Response("500", k)
            /\ inv' = MarkStale(k)
    /\ UNCHANGED <<transports, nextId, tr>>
    /\ UNCHANGED libVars

\* a variant that registers the session as soon as the id is minted
PostInitialize_Eager(k, h, body) ==
    /\ ~(~Falsy(k) /\ TransportsLookup(k))
    /\ Falsy(k)
    /\ isInitializeRequest(body)
    /\ nextId < MaxSessions
    /\ nextId' = nextId + 1
    /\ tr' = [tr EXCEPT ![nextId + 1] =
                [phase |-> "connecting", hdr |-> h, sessionId |-> NoSessionId]]
    /\ transports' = Put(transports, IdPool[nextId + 1], nextId + 1)
    /\ sessionHeaders' = Put(sessionHeaders, IdPool[nextId + 1], h)
    /\ resp' = Response("accepted", k)
    /\ UNCHANGED inv
    /\ UNCHANGED libVars

\* the initialization branch: !sessionId && isInitializeRequest(req.body),
\* up to the await of server.connect(transport)
PostInitialize(k, h, body) ==
    /\ ~(~Falsy(k) /\ TransportsLookup(k))
    /\ Falsy(k)
    /\ isInitializeRequest(body)
    /\ nextId < MaxSessions
    /\ nextId' = nextId + 1
    /\ tr' = [tr EXCEPT ![nextId + 1] =
                [phase |-> "connecting", hdr |-> h, sessionId |-> NoSessionId]]
    /\ resp' = Response("accepted", k)
    /\ UNCHANGED <<transports, sessionHeaders, inv>>
    /\ UNCHANGED libVars

\* the else branch: 400 Bad Request
PostBadRequest(k, body) ==
    /\ ~(~Falsy(k) /\ TransportsLookup(k))
    /\ ~(Falsy(k) /\ isInitializeRequest(body))
    /\ resp' = Response("400", k)
    /\ UNCHANGED <<transports, sessionHeaders, nextId, tr, inv>>
    /\ UNCHANGED libVars

\* server.connect(transport) returns; transport.handleRequest is called
Connected(n) ==
    /\ tr[n].phase = "connecting"
    /\ tr' = [tr EXCEPT ![n].phase = "handling"]
    /\ resp' = NoResponse
    /\ UNCHANGED <<transports, sessionHeaders, nextId, inv>>
    /\ UNCHANGED libVars

\* server.connect(transport) throws: the catch answers 500
ConnectThrows(n) ==
    /\ tr[n].phase = "connecting"
    /\ tr' = [tr EXCEPT ![n].phase = "failed", ![n].hdr = H_None]
    /\ resp' = Response("500", NoSessionId)
    /\ UNCHANGED <<transports, sessionHeaders, nextId, inv>>
    /\ UNCHANGED libVars

\* the transport confirms the id: onsessioninitialized(sessionId)
SessionInitialized(n) ==
    /\ tr[n].phase = "handling"
    /\ transports' = Put(transports, IdPool[n], n)
    /\ sessionHeaders' = Put(sessionHeaders, IdPool[n], tr[n].hdr)
    /\ tr' = [tr EXCEPT ![n] = [phase |-> "active", hdr |-> H_None,
                                sessionId |-> IdPool[n]]]
    /\ resp' = NoResponse
    /\ UNCHANGED <<nextId, inv>>
    /\ UNCHANGED libVars

\* the transport answers the initialization itself without confirming the id
InitializationRejected(n) ==
    /\ tr[n].phase = "handling"
    /\ tr' = [tr EXCEPT ![n].phase = "failed", ![n].hdr = H_None]
    /\ resp' = NoResponse
    /\ UNCHANGED <<transports, sessionHeaders, nextId, inv>>
    /\ UNCHANGED libVars

\* a variant of the cleanup that forgets the transport entry
oncloseTransports_Kept(id) == transports

\* delete transports[transport.sessionId]
oncloseTransports(id) == Delete(transports, id)

\* a variant of the cleanup that forgets the header entry
oncloseSessionHeaders_Kept(id) == sessionHeaders

\* delete sessionHeaders[transport.sessionId]
oncloseSessionHeaders(id) == Delete(sessionHeaders, id)

\* transport.onclose
TransportClose(n) ==
    /\ tr[n].phase \in {"handling", "active"}
    /\ IF tr[n].sessionId # NoSessionId
       THEN /\ transports' = oncloseTransports(tr[n].sessionId)
            /\ sessionHeaders' = oncloseSessionHeaders(tr[n].sessionId)
       ELSE UNCHANGED <<transports, sessionHeaders>>
    /\ tr' = [tr EXCEPT ![n].phase = "closed", ![n].hdr = H_None]
    /\ resp' = NoResponse
    /\ UNCHANGED <<nextId, inv>>
    /\ UNCHANGED libVars

(***************************************************************************)
(* GET /mcp and DELETE /mcp                                                *)
(***************************************************************************)
Methods == {"GET", "DELETE"}

\* handleSessionRequest, rejecting
SessionRequestRejected(method, k) ==
    /\ Falsy(k) \/ ~TransportsLookup(k)
    /\ resp' = Response("400", k)
    /\ UNCHANGED <<transports, sessionHeaders, nextId, tr, inv>>
    /\ UNCHANGED libVars

\* handleSessionRequest, past the check
SessionRequest(method, k, h) ==
    /\ ~(Falsy(k) \/ ~TransportsLookup(k))
    /\ sessionHeaders' = Overwrite(k, h)
    /\ inv' = MarkStale(k)
    /\ resp' = Response(IF k \in DOMAIN transports THEN "handed"
                                                    ELSE "unhandled", k)
    /\ UNCHANGED <<transports, nextId, tr>>
    /\ UNCHANGED libVars

(***************************************************************************)
(* Tool handlers.                                                          *)
(***************************************************************************)
\* what a service call can throw: a schema failure, an already typed
\* error, or an upstream failure with an HTTP status (0: no response at all)
ZodError ==
    [kind |-> "ZodError", class |-> "ZodError", code |-> "", status |-> 0,
     message |-> <<"issues">>]
HttpError(status) ==
    [kind |-> "HttpError", class |-> "GaxiosError", code |-> "",
     status |-> status, message |-> <<"upstream message">>]

\* new GmailServiceError(message, code, statusCode) and its calendar twin
ServiceError(class, message, code, statusCode) ==
    [kind |-> "ServiceError", class |-> class, code |-> code,
     status |-> statusCode, message |-> message]

\* the HTTP statuses an upstream call fails with
UpstreamStatuses == {401, 404, 429, 500}

\* GmailService.handleGmailError: the typed error it throws
handleGmailError(error, defaultMessage) ==
    IF error.kind = "ZodError"
    THEN ServiceError("GmailServiceError",
                      <<"Invalid input parameters: ">> \o error.message,
                      "VALIDATION_ERROR", 0)
    ELSE IF error.kind = "ServiceError" /\ error.class = "GmailServiceError"
    THEN error
    ELSE IF error.status = 401
    THEN ServiceError("GmailServiceError", <<"Authentication failed.">>,
                      "AUTHENTICATION_FAILED", 401)
    ELSE IF error.status = 403
    THEN ServiceError("GmailServiceError", <<"Insufficient permissions.">>,
                      "PERMISSION_DENIED", 403)
    ELSE IF error.status = 429
    THEN ServiceError("GmailServiceError", <<"Rate limit exceeded.">>,
                      "RATE_LIMIT_EXCEEDED", 429)
    ELSE ServiceError("GmailServiceError",
                      <<defaultMessage, ": ">> \o error.message,
                      "API_ERROR", error.status)

\* the catch of GmailService.getEmailDetails
getEmailDetailsCatch(error) ==
    IF error.kind = "HttpError" /\ error.status = 404
    THEN ServiceError("GmailServiceError", <<"Email not found">>,
                      "EMAIL_NOT_FOUND", 404)
    ELSE handleGmailError(error, "Failed to fetch email details")

\* a variant without the case for status 404
handleCalendarError_NoNotFound(error, defaultMessage) ==
    IF error.kind = "ZodError"
    THEN ServiceError("GCalendarServiceError",
                      <<"Invalid input parameters: ">> \o error.message,
                      "VALIDATION_ERROR", 0)
    ELSE IF error.kind = "ServiceError" /\ error.class = "GCalendarServiceError"
    THEN error
    ELSE IF error.status = 401
    THEN ServiceError("GCalendarServiceError", <<"Authentication failed.">>,
                      "AUTHENTICATION_FAILED", 401)
    ELSE IF error.status = 403
    THEN ServiceError("GCalendarServiceError", <<"Insufficient permissions.">>,
                      "PERMISSION_DENIED", 403)
    ELSE IF error.status = 429
    THEN ServiceError("GCalendarServiceError", <<"Rate limit exceeded.">>,
                      "RATE_LIMIT_EXCEEDED", 429)
    ELSE ServiceError("GCalendarServiceError",
                      <<defaultMessage, ": ">> \o error.message,
                      "API_ERROR", error.status)

\* GCalendarService.handleCalendarError: the typed error it throws
handleCalendarError(error, defaultMessage) ==
    IF error.kind = "ZodError"
    THEN ServiceError("GCalendarServiceError",
                      <<"Invalid input parameters: ">> \o error.message,
                      "VALIDATION_ERROR", 0)
    ELSE IF error.kind = "ServiceError" /\ error.class = "GCalendarServiceError"
    THEN error
    ELSE IF error.status = 401
    THEN ServiceError("GCalendarServiceError", <<"Authentication failed.">>,
                      "AUTHENTICATION_FAILED", 401)
    ELSE IF error.status = 403
    THEN ServiceError("GCalendarServiceError", <<"Insufficient permissions.">>,
                      "PERMISSION_DENIED", 403)
    ELSE IF error.status = 404
    THEN ServiceError("GCalendarServiceError", <<"Calendar or event not found.">>,
                      "NOT_FOUND", 404)
    ELSE IF error.status = 429
    THEN ServiceError("GCalendarServiceError", <<"Rate limit exceeded.">>,
                      "RATE_LIMIT_EXCEEDED", 429)
    ELSE ServiceError("GCalendarServiceError",
                      <<defaultMessage, ": ">> \o error.message,
                      "API_ERROR", error.status)

\* the typed error a service operation throws for a failure
ServiceThrows(tool, error) ==
    IF tool = "gmail_get_details"
    THEN getEmailDetailsCatch(error)
    ELSE handleCalendarError(error, "Failed to decline event")

\* EmailDetailsOptionsSchema.parse / DeclineEventOptionsSchema.parse
ServiceAccepts(tool, args) ==
    tool = "gmail_get_details" => (args.maxWords >= 0 /\ args.maxWords <= 1000)

\* upstream calls of one invocation: messages.get; getTokenInfo, events.get,
\* events.patch
NumCalls(tool) == IF tool = "gmail_get_details" THEN 1 ELSE 3

\* a variant that reads one header snapshot shared by all sessions
createServiceFromSession_Shared(sessionId) ==
    IF DOMAIN sessionHeaders = {}
    THEN Failed("NO_SESSION_CONTEXT")
    ELSE LET token == extractBearerToken(
                        sessionHeaders[CHOOSE k \in DOMAIN sessionHeaders :
                                         k # sessionId
                                         \/ DOMAIN sessionHeaders = {sessionId}])
         IN  IF token.isNull \/ token.s = <<>>
             THEN Failed("MISSING_AUTHORIZATION")
             ELSE fromBearerToken(token.s)

\* createGmailServiceFromSession / createGCalendarServiceFromSession
createServiceFromSession(sessionId) ==
    IF sessionId \notin DOMAIN sessionHeaders
    THEN Failed("NO_SESSION_CONTEXT")
    ELSE LET token == extractBearerToken(sessionHeaders[sessionId])
         IN  IF token.isNull \/ token.s = <<>>
             THEN Failed("MISSING_AUTHORIZATION")
             ELSE fromBearerToken(token.s)

\* a variant in which every handler tests for the mail error class
HandlerErrorClass_Mail(tool) == "GmailServiceError"

\* the class the catch of a tool handler tests with instanceof
HandlerErrorClass(tool) ==
    IF tool = "gmail_get_details" THEN "GmailServiceError"
                                  ELSE "GCalendarServiceError"

\* the message of the Error a tool handler re-throws
GatewayMessage(tool, error) ==
    IF error.class = HandlerErrorClass(tool)
    THEN <<"Error: ", "API Error ", "[", error.code, "]", ": ", "message">>
    ELSE <<"Error: ", "message">>

\* the handler threw
Throw(slot, error) ==
    [slot EXCEPT !.pc = "failed", !.code = error.code,
                 !.msg = GatewayMessage(slot.tool, error),
                 !.prev = H_None, !.stale = FALSE]

\* the transport calls the handler of `tool` with `args`; the handler runs
\* up to its first upstream call: it builds the client from the session's
\* stored headers and the service validates the arguments
BuildClient(i, tool, args) ==
    /\ inv[i].pc = "dispatched"
    /\ LET r == createServiceFromSession(inv[i].sid)
           seen == IF inv[i].sid \in DOMAIN sessionHeaders
                   THEN extractBearerToken(sessionHeaders[inv[i].sid])
                   ELSE Null
           slot == [inv[i] EXCEPT !.tool = tool, !.args = args, !.ext = seen]
       IN  inv' = [inv EXCEPT ![i] =
                IF ~r.ok
                THEN Throw(slot, [class |-> ServiceErrorClass(slot.tool),
                                  code |-> r.code])
                ELSE IF ~ServiceAccepts(slot.tool, slot.args)
                THEN Throw(slot, ServiceThrows(slot.tool, ZodError))
                ELSE [slot EXCEPT !.pc = "awaiting", !.tok = r.tok,
                                  !.calls = 1]]
    /\ resp' = NoResponse
    /\ UNCHANGED <<transports, sessionHeaders, nextId, tr>>
    /\ UNCHANGED libVars

\* a variant that resolves the credential from the session for every call
TokenForNextCall_Reread(i) ==
    IF inv[i].sid \in DOMAIN sessionHeaders
    THEN extractBearerToken(sessionHeaders[inv[i].sid]).s
    ELSE <<>>

\* the credential of the next upstream call: the client's own accessToken
TokenForNextCall(i) == inv[i].tok

\* the history of an invocation is kept up to its first upstream return
Forget(slot) ==
    [slot EXCEPT !.req = H_None, !.prev = H_None, !.stale = FALSE,
                 !.ext = Null, !.args = NoArgs]

\* the handler returned or threw: its client is dropped
Finished(slot) == [Forget(slot) EXCEPT !.tok = <<>>]

\* an upstream call returns successfully
UpstreamReturns(i) ==
    /\ inv[i].pc = "awaiting"
    /\ inv' = [inv EXCEPT ![i] =
                IF inv[i].calls < NumCalls(inv[i].tool)
                THEN [Forget(inv[i]) EXCEPT !.calls = inv[i].calls + 1,
                                            !.tok = TokenForNextCall(i)]
                ELSE Finished([inv[i] EXCEPT !.pc = "done"])]
    /\ resp' = NoResponse
    /\ UNCHANGED <<transports, sessionHeaders, nextId, tr>>
    /\ UNCHANGED libVars

\* an upstream call fails with an HTTP status
UpstreamFails(i, status) ==
    /\ inv[i].pc = "awaiting"
    /\ inv' = [inv EXCEPT ![i] =
                Finished(Throw(inv[i],
                               ServiceThrows(inv[i].tool, HttpError(status))))]
    /\ resp' = NoResponse
    /\ UNCHANGED <<transports, sessionHeaders, nextId, tr>>
    /\ UNCHANGED libVars

\* the result or the error has been handed back: the slot is free again
Retire(i) ==
    /\ inv[i].pc \in {"done", "failed"}
    /\ inv' = [inv EXCEPT ![i] = Idle]
    /\ resp' = NoResponse
    /\ UNCHANGED <<transports, sessionHeaders, nextId, tr>>
    /\ UNCHANGED libVars

(***************************************************************************)
(* The datetime_converter tool.  A date-time string is a sequence of       *)
(* tokens: the minute (one of two around the epoch), two digits of         *)
(* seconds, optionally a dot and three digits of milliseconds, and "Z";    *)
(* the strings that denote no date are the empty one, "not-a-date" and     *)
(* ISO strings with a month or a seconds field out of range.               *)
(* The outcome holds the Date's time value next to what the handler        *)
(* returns (text) or throws (message).                                     *)
(***************************************************************************)
\* a variant that rounds the seconds toward zero
datetime_converter_TowardZero(datetime, format) ==
    LET digits == <<"0", "1", "2", "3", "4", "5", "6", "7", "8", "9">>
        IsDigit(c) == \E n \in 1..10 : digits[n] = c
        Digit(c) == (CHOOSE n \in 1..10 : digits[n] = c) - 1
        minutes == <<"1969-12-31T23:59:", "1970-01-01T00:00:">>
        \* new Date(datetime).getTime(): the milliseconds since the epoch of
        \* an ISO date-time in UTC, NaN for anything else and for a seconds
        \* field above 59
        wellFormed ==
            /\ Len(datetime) \in {4, 8}
            /\ datetime[1] \in {minutes[1], minutes[2]}
            /\ IsDigit(datetime[2]) /\ IsDigit(datetime[3])
            /\ Digit(datetime[2]) < 6
            /\ datetime[Len(datetime)] = "Z"
            /\ Len(datetime) = 8 =>
                 /\ datetime[4] = "."
                 /\ \A n \in 5..7 : IsDigit(datetime[n])
        getTime ==
            (IF datetime[1] = minutes[1] THEN -60000 ELSE 0)
            + 1000 * (10 * Digit(datetime[2]) + Digit(datetime[3]))
            + (IF Len(datetime) = 8
               THEN 100 * Digit(datetime[5]) + 10 * Digit(datetime[6])
                        + Digit(datetime[7])
               ELSE 0)
        \* Date.prototype.toISOString
        toISOString ==
            LET second == (getTime % 60000) \div 1000
                milli == getTime % 1000
            IN  <<minutes[(getTime \div 60000) + 2],
                  digits[(second \div 10) + 1], digits[(second % 10) + 1], ".",
                  digits[(milli \div 100) + 1],
                  digits[((milli \div 10) % 10) + 1],
                  digits[(milli % 10) + 1], "Z">>
        \* String(result) of a whole number of seconds between -60 and 59
        String(n) ==
            LET m == IF n < 0 THEN -n ELSE n
            IN  (IF n < 0 THEN <<"-">> ELSE <<>>)
                \o (IF m >= 10 THEN <<digits[(m \div 10) + 1]>> ELSE <<>>)
                \o <<digits[(m % 10) + 1]>>
    IN  IF ~wellFormed
        THEN [threw |-> TRUE, isNaN |-> TRUE, time |-> 0, result |-> 0,
              text |-> <<>>,
              message |-> <<"Error converting date-time: ",
                            "Invalid date-time string provided.">>]
        ELSE IF format = "unix"
        THEN [threw |-> FALSE, isNaN |-> FALSE, time |-> getTime,
              result |-> (IF getTime < 0 THEN -((-getTime) \div 1000) ELSE getTime \div 1000),
              text |-> String((IF getTime < 0 THEN -((-getTime) \div 1000) ELSE getTime \div 1000)), message |-> <<>>]
        ELSE [threw |-> FALSE, isNaN |-> FALSE, time |-> getTime,
              result |-> 0, text |-> toISOString, message |-> <<>>]

\* the handler of datetime_converter; Math.floor(date.getTime() / 1000)
datetime_converter(datetime, format) ==
    LET digits == <<"0", "1", "2", "3", "4", "5", "6", "7", "8", "9">>
        IsDigit(c) == \E n \in 1..10 : digits[n] = c
        Digit(c) == (CHOOSE n \in 1..10 : digits[n] = c) - 1
        minutes == <<"1969-12-31T23:59:", "1970-01-01T00:00:">>
        \* new Date(datetime).getTime(): the milliseconds since the epoch of
        \* an ISO date-time in UTC, NaN for anything else and for a seconds
        \* field above 59
        wellFormed ==
            /\ Len(datetime) \in {4, 8}
            /\ datetime[1] \in {minutes[1], minutes[2]}
            /\ IsDigit(datetime[2]) /\ IsDigit(datetime[3])
            /\ Digit(datetime[2]) < 6
            /\ datetime[Len(datetime)] = "Z"
            /\ Len(datetime) = 8 =>
                 /\ datetime[4] = "."
                 /\ \A n \in 5..7 : IsDigit(datetime[n])
        getTime ==
            (IF datetime[1] = minutes[1] THEN -60000 ELSE 0)
            + 1000 * (10 * Digit(datetime[2]) + Digit(datetime[3]))
            + (IF Len(datetime) = 8
               THEN 100 * Digit(datetime[5]) + 10 * Digit(datetime[6])
                        + Digit(datetime[7])
               ELSE 0)
        \* Date.prototype.toISOString
        toISOString ==
            LET second == (getTime % 60000) \div 1000
                milli == getTime % 1000
            IN  <<minutes[(getTime \div 60000) + 2],
                  digits[(second \div 10) + 1], digits[(second % 10) + 1], ".",
                  digits[(milli \div 100) + 1],
                  digits[((milli \div 10) % 10) + 1],
                  digits[(milli % 10) + 1], "Z">>
        \* String(result) of a whole number of seconds between -60 and 59
        String(n) ==
            LET m == IF n < 0 THEN -n ELSE n
            IN  (IF n < 0 THEN <<"-">> ELSE <<>>)
                \o (IF m >= 10 THEN <<digits[(m \div 10) + 1]>> ELSE <<>>)
                \o <<digits[(m % 10) + 1]>>
    IN  IF ~wellFormed
        THEN [threw |-> TRUE, isNaN |-> TRUE, time |-> 0, result |-> 0,
              text |-> <<>>,
              message |-> <<"Error converting date-time: ",
                            "Invalid date-time string provided.">>]
        ELSE IF format = "unix"
        THEN [threw |-> FALSE, isNaN |-> FALSE, time |-> getTime,
              result |-> (getTime \div 1000),
              text |-> String((getTime \div 1000)), message |-> <<>>]
        ELSE [threw |-> FALSE, isNaN |-> FALSE, time |-> getTime,
              result |-> 0, text |-> toISOString, message |-> <<>>]

\* the tool is called on a gateway that holds no session
ConvInit ==
    /\ GatewayInit
    /\ svc = [pc |-> "none"]
    /\ wire = <<>>
    /\ trunc = [pc |-> "none"]
    /\ extract = [pc |-> "none"]
    /\ dec = <<>>
    /\ cal = <<>>
    /\ \E datetime \in
           {<<>>, <<"not-a-date">>}
           \cup {<<minute, s[1], s[2]>> \o fraction \o zone :
                   minute \in {"1969-12-31T23:59:", "1970-01-01T00:00:",
                               "1970-13-01T00:00:"},
                   s \in {<<"0", "0">>, <<"0", "1">>, <<"3", "0">>,
                          <<"5", "9">>, <<"6", "0">>, <<"6", "5">>},
                   fraction \in {<<>>, <<".", "0", "0", "0">>,
                                 <<".", "0", "0", "1">>, <<".", "5", "0", "0">>,
                                 <<".", "9", "9", "9">>},
                   zone \in {<<"Z">>}} :
         conv = [pc |-> "called", datetime |-> datetime, calls |-> <<>>]

\* one call of the tool with the date-time string and a format (the schema
\* leaves a missing format undefined, which the switch treats as 'iso');
\* the string is converted at most twice
Convert(format) ==
    /\ conv.pc = "called"
    /\ Len(conv.calls) < 2
    /\ conv' = [conv EXCEPT !.calls =
                  Append(@, [format |-> format,
                             outcome |-> datetime_converter(conv.datetime,
                                                            format)])]
    /\ UNCHANGED <<gatewayVars, svc, wire, trunc, extract, dec, cal>>

ConvSpec ==
    ConvInit
    /\ [][\E format \in {"undefined", "iso", "utc", "unix"} : Convert(format)]_vars

(***************************************************************************)
(* The gateway.                                                            *)
(***************************************************************************)
Next ==
    \/ \E k \in RequestKeys, body \in Bodies :
         \E h \in HeadersSentWith(k) : PostReuse(k, h, body)
    \/ \E k \in RequestKeys, body \in Bodies :
         \E h \in HeadersSentWith(k) : PostInitialize(k, h, body)
    \/ \E k \in RequestKeys, body \in Bodies : PostBadRequest(k, body)
    \/ \E n \in 1..MaxSessions : Connected(n)
    \/ \E n \in 1..MaxSessions : ConnectThrows(n)
    \/ \E n \in 1..MaxSessions : SessionInitialized(n)
    \/ \E n \in 1..MaxSessions : InitializationRejected(n)
    \/ \E n \in 1..MaxSessions : TransportClose(n)
    \/ \E m \in Methods, k \in RequestKeys : SessionRequestRejected(m, k)
    \/ \E m \in Methods, k \in RequestKeys :
         \E h \in HeadersSentWith(k) : SessionRequest(m, k, h)
    \/ \E i \in Slots, tool \in Tools :
         \E args \in GatewayArgs(tool) : BuildClient(i, tool, args)
    \/ \E i \in Slots : UpstreamReturns(i)
    \/ \E i \in Slots, status \in UpstreamStatuses : UpstreamFails(i, status)
    \/ \E i \in Slots : Retire(i)

Spec == Init /\ [][Next]_vars

(***************************************************************************)
(* Credential handling on its own: one session whose stored headers are    *)
(* any pair of authorization values (or whose entries are gone), and one   *)
(* tool call handed to its transport.                                      *)
(***************************************************************************)
BasicT1 == <<"B", "a", "s", "i", "c", " ">> \o TokenT1
LowerBearerT1 == <<"b", "e", "a", "r", "e", "r", " ">> \o TokenT1

\* the values an authorization entry of req.headers is drawn from
AuthValues ==
    { HUndef,
      HStr(<<>>),
      HList(<<>>),
      HStr(BearerPrefix \o TokenT1),
      HStr(BearerPrefix),
      HStr(LowerBearerT1),
      HStr(BasicT1),
      HStr(BearerPrefix \o BearerPrefix),
      HStr(BearerPrefix \o BearerPrefix \o TokenT1),
      HList(<<BearerPrefix \o TokenT2, BasicT1>>),
      HList(<<BasicT1, BearerPrefix \o TokenT2>>) }

\* a tools/call of session IdPool[1] is with the transport; the session is
\* registered with headers h, or (registered = FALSE) already closed
AuthState(registered, h) ==
    /\ transports = IF registered THEN Put([k \in {} |-> 0], IdPool[1], 1)
                                  ELSE [k \in {} |-> 0]
    /\ sessionHeaders = IF registered
                        THEN Put([k \in {} |-> H_None], IdPool[1], h)
                        ELSE [k \in {} |-> H_None]
    /\ nextId = 1
    /\ tr = [n \in 1..MaxSessions |->
               IF n = 1
               THEN [phase |-> IF registered THEN "active" ELSE "closed",
                     hdr |-> H_None, sessionId |-> IdPool[1]]
               ELSE NoTransport]
    /\ inv = [i \in Slots |->
                IF i = 1
                THEN [Idle EXCEPT !.pc = "dispatched", !.sid = IdPool[1],
                                  !.req = h, !.prev = h]
                ELSE Idle]
    /\ resp = NoResponse
    /\ LibIdle

AuthInit ==
    \/ \E lower \in AuthValues, upper \in AuthValues :
         AuthState(TRUE, Headers(lower, upper))
    \/ AuthState(FALSE, H_None)

AuthNext ==
    \/ \E i \in Slots, tool \in Tools :
         \E args \in GatewayArgs(tool) : BuildClient(i, tool, args)
    \/ \E i \in Slots : UpstreamReturns(i)
    \/ \E i \in Slots, status \in UpstreamStatuses : UpstreamFails(i, status)
    \/ \E i \in Slots : Retire(i)

AuthSpec == AuthInit /\ [][AuthNext]_vars

\* every upstream call that was issued returns, successfully or not
FairSpec ==
    /\ Init
    /\ [][Next]_vars
    /\ \A i \in Slots :
         WF_vars(UpstreamReturns(i)
                   \/ \E status \in UpstreamStatuses : UpstreamFails(i, status))

(***************************************************************************)
(* The service objects on their own: one operation of GmailService or      *)
(* GCalendarService, from its call to its return or throw.                 *)
(*   svc  : the invocation (operation, arguments, position, what it holds) *)
(*   wire : the upstream calls it has issued, oldest first                 *)
(***************************************************************************)
\* optional values: undefined, or a number / a string
NoNumber == [present |-> FALSE, v |-> 0]
Num(n) == [present |-> TRUE, v |-> n]
NoString == [present |-> FALSE, v |-> <<>>]
Str(x) == [present |-> TRUE, v |-> x]

\* z.number().min(lo).max(hi).optional()
OptionalNumberBetween(x, lo, hi) == x.present => (x.v >= lo /\ x.v <= hi)

\* z.enum(values).optional()
OptionalEnum(x, values) == x.present => x.v \in values

\* z.string().email(): something, an at sign, something
IsEmail(x) ==
    \E n \in 2..(Len(x) - 1) :
        /\ x[n] = "@"
        /\ \A m \in 1..Len(x) : m # n => x[m] # "@"

AddrMe == <<"m", "e", "@", "x">>
AddrAnn == <<"a", "n", "n", "@", "x">>
AddrBob == <<"b", "o", "b", "@", "x">>
NotAnAddr == <<"a", "n", "n">>

\* EmailListOptionsSchema
EmailListOptionsSchema(o) == OptionalNumberBetween(o.maxResults, 1, 500)

\* EmailDetailsOptionsSchema
EmailDetailsOptionsSchema(o) ==
    /\ o.messageId.present /\ Len(o.messageId.v) >= 1
    /\ OptionalEnum(o.format, {<<"minimal">>, <<"full">>, <<"raw">>,
                               <<"metadata">>})
    /\ OptionalNumberBetween(o.maxWords, 0, 1000)

\* EventListOptionsSchema
EventListOptionsSchema(o) ==
    /\ OptionalNumberBetween(o.maxResults, 1, 2500)
    /\ OptionalEnum(o.orderBy, {<<"startTime">>, <<"updated">>})

\* CreateEventOptionsSchema; start and end are EventDateTimeSchema objects,
\* whose date, dateTime and timeZone are each an optional string
CreateEventOptionsSchema(o) ==
    /\ o.summary.present
    /\ o.start.present /\ o.end.present
    /\ \A n \in 1..Len(o.attendees) : IsEmail(o.attendees[n])

\* DeclineEventOptionsSchema
DeclineEventOptionsSchema(o) == o.eventId.present

\* the most identifiers one batch may hold
BatchLimit == 100

\* the numbers of words of the message bodies messages.get answers with
BodyWords == {2, 300, 301}

\* the identifier lists handed to the batch fetcher have up to MaxIds entries
MaxIds == 101

\* messageIds with n entries
MessageIds(n) == [k \in 1..n |-> <<"id", k>>]

\* the public operations, and the private batch fetcher of getEmailList
Operations ==
    {"getEmailList", "getEmailDetails", "listCalendars", "listEvents",
     "createEvent", "declineEvent"}

ArgumentsOf(op) ==
    LET \* start and end: undefined, or an object with any of the fields
        EventDateTimes ==
            {[present |-> FALSE, date |-> NoString, dateTime |-> NoString,
              timeZone |-> NoString]}
            \cup {[present |-> TRUE, date |-> f[1], dateTime |-> f[2],
                   timeZone |-> f[3]] :
                     f \in {<<NoString, NoString, NoString>>,
                            <<Str(<<"d">>), NoString, NoString>>,
                            <<NoString, Str(<<"d", "T", "t">>), NoString>>,
                            <<NoString, Str(<<"d", "T", "t">>), Str(<<"z">>)>>,
                            <<Str(<<"d">>), Str(<<"d", "T", "t">>), NoString>>}}
    IN
    CASE op = "getEmailList" ->
           [maxResults : {NoNumber, Num(0), Num(1), Num(500), Num(501)},
            fetchDetails : BOOLEAN]
      [] op = "getEmailDetails" ->
           [messageId : {NoString, Str(<<>>), Str(<<"m", "1">>)},
            format : {NoString, Str(<<"full">>), Str(<<"html">>)},
            maxWords : {NoNumber, Num(0), Num(300), Num(1000), Num(1001)},
            includeHeaders : {NoString, Str(<<>>), Str(<<"Subject">>)}]
      [] op = "listCalendars" -> {[none |-> TRUE]}
      [] op = "listEvents" ->
           [maxResults : {NoNumber, Num(0), Num(1), Num(2500), Num(2501)},
            orderBy : {NoString, Str(<<"startTime">>), Str(<<"created">>)}]
      [] op = "createEvent" ->
           [summary : {NoString, Str(<<"s">>)},
            start : EventDateTimes, end : EventDateTimes,
            attendees : {<<>>, <<AddrAnn>>, <<AddrAnn, NotAnAddr>>}]
      [] op = "declineEvent" ->
           [eventId : {NoString, Str(<<>>), Str(<<"e", "1">>)},
            calendarId : {NoString, Str(<<"primary">>)}]
      [] op = "batchGetEmailDetails" ->
           [messageIds : {MessageIds(n) :
                            n \in {0, 1, 2} \cup (BatchLimit..MaxIds)}]
      [] op = "getEmailHeaders" ->
           [messageId : {Str(<<>>), Str(<<"m", "1">>)}]

\* Schema.parse(options) of the operation
SchemaAccepts(op, o) ==
    CASE op = "getEmailList" -> EmailListOptionsSchema(o)
      [] op = "getEmailDetails" -> EmailDetailsOptionsSchema(o)
      [] op = "listCalendars" -> TRUE
      [] op = "listEvents" -> EventListOptionsSchema(o)
      [] op = "createEvent" -> CreateEventOptionsSchema(o)
      [] op = "declineEvent" -> DeclineEventOptionsSchema(o)

\* the service class of an operation
IsMail(op) == op \in {"getEmailList", "getEmailDetails"}

(***************************************************************************)
(* The batch request and the multipart batch response.  Texts are          *)
(* sequences of tokens: "--", a boundary name, a line break, a header      *)
(* block, or one JSON text.                                                *)
(***************************************************************************)
\* the most segments in a batch response
MaxSegments == 2

\* the multipart body of the batch request: one sub-request per identifier,
\* with Content-ID item-<index>, index counted from 0
BatchRequestBody(messageIds) ==
    [k \in 1..Len(messageIds) |->
        [contentId |-> k - 1, get |-> messageIds[k]]]

CRLF == "CRLF"
Whitespace == {CRLF, " "}

\* String.prototype.trim
RECURSIVE Trim(_)
Trim(text) ==
    IF text = <<>> THEN text
    ELSE IF Head(text) \in Whitespace THEN Trim(Tail(text))
    ELSE IF text[Len(text)] \in Whitespace
         THEN Trim(SubSeq(text, 1, Len(text) - 1))
         ELSE text

\* String.prototype.indexOf for a token sequence, counted from 1; 0: absent
IndexOf(text, sep) ==
    LET hits == {n \in 1..(Len(text) - Len(sep) + 1) :
                    SubSeq(text, n, n + Len(sep) - 1) = sep}
    IN  IF hits = {} THEN 0
        ELSE CHOOSE n \in hits : \A m \in hits : n <= m

\* String.prototype.split(separator)
RECURSIVE Split(_, _)
Split(text, sep) ==
    LET n == IndexOf(text, sep)
    IN  IF n = 0 THEN <<text>>
        ELSE <<SubSeq(text, 1, n - 1)>>
               \o Split(SubSeq(text, n + Len(sep), Len(text)), sep)

(***************************************************************************)
(* The text helpers of the mail client.  A text is a sequence of           *)
(* characters; CRLF stands for a line break, which the whitespace class    *)
(* of the regular expression and of trim both cover.                       *)
(***************************************************************************)

\* the longest text and the largest word cap of a truncation
MaxTextLen == 5
MaxWords == 3

\* the texts of n characters over a letter, a dot, a space, a line break
RECURSIVE TextsOfLength(_)
TextsOfLength(n) ==
    IF n = 0 THEN {<<>>}
    ELSE {<<c>> \o t : c \in {"a", ".", " ", CRLF},
                       t \in TextsOfLength(n - 1)}

Texts == UNION {TextsOfLength(n) : n \in 0..MaxTextLen}

\* String.prototype.split(/\s+/): the pieces between the maximal runs of
\* whitespace; a text without whitespace (the empty text too) is one piece.
\* The pieces left of a run and the pieces right of it are those of the two
\* texts the run separates; the run at the first whitespace from the middle
\* on (the last one before it, if none) is taken, which keeps the
\* evaluation shallow for long texts.
RECURSIVE SplitWhitespace(_)
SplitWhitespace(text) ==
    LET spaces == {i \in 1..Len(text) : text[i] \in Whitespace}
        upper == {i \in spaces : 2 * i >= Len(text)}
        at == IF upper # {} THEN CHOOSE k \in upper : \A l \in upper : k <= l
              ELSE CHOOSE k \in spaces : \A l \in spaces : l <= k
        before == {k \in 1..at : \A l \in k..at : text[l] \in Whitespace}
        after == {k \in at..Len(text) : \A l \in at..k : text[l] \in Whitespace}
        i == CHOOSE k \in before : \A l \in before : k <= l
        j == CHOOSE k \in after : \A l \in after : l <= k
    IN  IF spaces = {} THEN <<text>>
        ELSE SplitWhitespace(SubSeq(text, 1, i - 1))
                 \o SplitWhitespace(SubSeq(text, j + 1, Len(text)))

\* Array.prototype.join, the list taken by halves
RECURSIVE Join(_, _)
Join(words, sep) ==
    IF words = <<>> THEN <<>>
    ELSE IF Len(words) = 1 THEN words[1]
    ELSE LET half == Len(words) \div 2
         IN  Join(SubSeq(words, 1, half), sep) \o sep
                 \o Join(SubSeq(words, half + 1, Len(words)), sep)

truncateText_NoEllipsis(text, maxWords) ==
    IF text = <<>>
    THEN [truncatedText |-> <<>>, wordCount |-> 0, isTruncated |-> FALSE]
    ELSE LET words == SplitWhitespace(Trim(text))
             originalWordCount == Len(words)
         IN  IF originalWordCount <= maxWords
             THEN [truncatedText |-> text, wordCount |-> originalWordCount,
                   isTruncated |-> FALSE]
             ELSE [truncatedText |->
                       Join(SubSeq(words, 1, maxWords), <<" ">>),
                   wordCount |-> originalWordCount,
                   isTruncated |-> TRUE]

truncateText(text, maxWords) ==
    IF text = <<>>
    THEN [truncatedText |-> <<>>, wordCount |-> 0, isTruncated |-> FALSE]
    ELSE LET words == SplitWhitespace(Trim(text))
             originalWordCount == Len(words)
         IN  IF originalWordCount <= maxWords
             THEN [truncatedText |-> text, wordCount |-> originalWordCount,
                   isTruncated |-> FALSE]
             ELSE [truncatedText |->
                       Join(SubSeq(words, 1, maxWords), <<" ">>)
                           \o <<".", ".", ".">>,
                   wordCount |-> originalWordCount,
                   isTruncated |-> TRUE]

TruncInit ==
    /\ GatewayInit
    /\ svc = [pc |-> "none"]
    /\ wire = <<>>
    /\ extract = [pc |-> "none"]
    /\ conv = [pc |-> "none"]
    /\ dec = <<>>
    /\ cal = <<>>
    /\ \E text \in Texts, maxWords \in 1..MaxWords :
         trunc = [pc |-> "called", text |-> text, maxWords |-> maxWords,
                  first |-> truncateText(<<>>, maxWords), cap |-> maxWords,
                  second |-> truncateText(<<>>, maxWords)]

\* truncateText(text, maxWords)
Truncate ==
    /\ trunc.pc = "called"
    /\ trunc' = [trunc EXCEPT !.pc = "truncated",
                              !.first = truncateText(trunc.text, trunc.maxWords)]
    /\ UNCHANGED <<gatewayVars, svc, wire, extract, conv, dec, cal>>

\* truncateText applied to the text it returned, at the same or a larger cap
TruncateAgain ==
    /\ trunc.pc = "truncated"
    /\ \E cap \in trunc.maxWords..MaxWords :
         trunc' = [trunc EXCEPT !.pc = "again",
                                !.cap = cap,
                                !.second = truncateText(trunc.first.truncatedText,
                                                        cap)]
    /\ UNCHANGED <<gatewayVars, svc, wire, extract, conv, dec, cal>>

TruncSpec == TruncInit /\ [][Truncate \/ TruncateAgain]_vars

(***************************************************************************)
(* extractTextContent.  The inline data of a body is absent, a string of   *)
(* base64url groups, or (the response being parsed JSON) a value that is   *)
(* not a string.  A part is [mimeType, data, parts]; parts is a list or    *)
(* absent.                                                                 *)
(***************************************************************************)

\* the most parts a payload holds; a part below it holds at most one
MaxParts == 2

NoInlineData == [kind |-> "undefined", s |-> <<>>]
InlineData(groups) == [kind |-> "string", s |-> groups]
NotAString == [kind |-> "object", s |-> <<>>]

\* the characters one base64 group stands for ("QQ" is "A", "Qg" is "B",
\* "YSA" is "a" and a space);
\* Buffer.from(..., 'base64') drops what is not a complete group, a lone
\* padding sign included
RECURSIVE Base64Text(_)
Base64Text(groups) ==
    IF groups = <<>> THEN <<>>
    ELSE IF Len(groups) = 1
    THEN CASE groups[1] = "QQ" -> <<"A">>
           [] groups[1] = "Qg" -> <<"B">>
           [] groups[1] = "YSA" -> <<"a", " ">>
           [] OTHER -> <<>>
    ELSE LET half == Len(groups) \div 2
         IN  Base64Text(SubSeq(groups, 1, half))
                 \o Base64Text(SubSeq(groups, half + 1, Len(groups)))

\* decodeBase64Url(data): the decoded text, or DECODE_ERROR thrown when
\* data has no replace method
decodeBase64Url(data) ==
    IF data.kind = "string"
    THEN [threw |-> FALSE, text |-> Base64Text(data.s)]
    ELSE [threw |-> TRUE, text |-> <<>>]

NoParts == [present |-> FALSE, list |-> <<>>]
Parts(list) == [present |-> TRUE, list |-> list]

\* part.mimeType === 'text/plain' && part.body?.data
IsTextPartWithData(part) ==
    /\ part.mimeType = "text/plain"
    /\ \/ part.data.kind = "object"
       \/ part.data.kind = "string" /\ part.data.s # <<>>

\* the mime type and inline data of the parts that are tried
PartKinds ==
    {[mimeType |-> "text/plain", data |-> d] :
         d \in {NoInlineData, InlineData(<<"QQ">>), InlineData(<<"Qg">>),
                InlineData(<<"=">>), NotAString}}
    \cup {[mimeType |-> "text/html", data |-> d] :
         d \in {NoInlineData, InlineData(<<"QQ">>)}}

\* the parts below the payload: without parts, or with one part that has
\* none
InnerParts ==
    LET LeafParts ==
            {[mimeType |-> k.mimeType, data |-> k.data, parts |-> NoParts] :
                 k \in PartKinds}
    IN  LeafParts
        \cup {[mimeType |-> k.mimeType, data |-> k.data,
                parts |-> Parts(<<c>>)] : k \in PartKinds, c \in LeafParts}

RECURSIVE PartLists(_)
PartLists(n) ==
    IF n = 0 THEN {<<>>}
    ELSE PartLists(n - 1)
         \cup {<<p>> \o l : p \in InnerParts,
                            l \in {x \in PartLists(n - 1) : Len(x) = n - 1}}

\* the messages handed to extractTextContent
Messages ==
    {[payload |-> [mimeType |-> k.mimeType, data |-> k.data, parts |-> ps],
      snippet |-> <<"s">>] :
         k \in PartKinds,
         ps \in {NoParts} \cup {Parts(l) : l \in PartLists(MaxParts)}}

\* findTextPart(parts): the text returned, Null when the loop runs out
RECURSIVE findTextPart(_)
findTextPart(parts) ==
    IF parts = <<>> THEN Null
    ELSE LET part == Head(parts)
             decoded == decodeBase64Url(part.data)
         IN  IF IsTextPartWithData(part)
             THEN IF decoded.threw
                  THEN findTextPart(Tail(parts))
                  ELSE Some(decoded.text)
             ELSE IF part.parts.present
                  THEN LET textFromSubParts == findTextPart(part.parts.list)
                       IN  IF /\ ~textFromSubParts.isNull
                              /\ textFromSubParts.s # <<>>
                           THEN textFromSubParts
                           ELSE findTextPart(Tail(parts))
                  ELSE findTextPart(Tail(parts))

extractTextContent(message) ==
    LET payload == message.payload
        decoded == decodeBase64Url(payload.data)
        textBody == IF payload.parts.present
                    THEN findTextPart(payload.parts.list)
                    ELSE Null
    IN  IF IsTextPartWithData(payload) /\ ~decoded.threw
        THEN decoded.text
        ELSE IF ~textBody.isNull /\ textBody.s # <<>>
        THEN textBody.s
        ELSE message.snippet

ExtractInit ==
    /\ GatewayInit
    /\ svc = [pc |-> "none"]
    /\ wire = <<>>
    /\ trunc = [pc |-> "none"]
    /\ conv = [pc |-> "none"]
    /\ dec = <<>>
    /\ cal = <<>>
    /\ \E message \in Messages :
         extract = [pc |-> "called", message |-> message, result |-> <<>>]

\* extractTextContent(message)
ExtractTextContent ==
    /\ extract.pc = "called"
    /\ extract' = [extract EXCEPT !.pc = "returned",
                                  !.result = extractTextContent(extract.message)]
    /\ UNCHANGED <<gatewayVars, svc, wire, trunc, conv, dec, cal>>

ExtractSpec == ExtractInit /\ [][ExtractTextContent]_vars

\* the JSON texts of the model and what JSON.parse makes of each
JsonTexts == {"{m1}", "{m2}", "{error}", "{broken"}

\* JSON.parse: a value (a message without inline text, or an object with
\* an error member), or a SyntaxError
JSONparse(text) ==
    LET message(id) ==
            [ok |-> TRUE, id |-> id, error |-> FALSE,
             payload |-> [mimeType |-> "text/html", data |-> NoInlineData,
                          parts |-> NoParts, headers |-> <<>>],
             snippet |-> <<"s">>]
    IN  IF text = <<"{m1}">> THEN message("m1")
        ELSE IF text = <<"{m2}">> THEN message("m2")
        ELSE IF text = <<"{error}">>
        THEN [ok |-> TRUE, id |-> "", error |-> TRUE]
        ELSE [ok |-> FALSE, id |-> "", error |-> FALSE]

\* parseMessageToEmailDetails(message, maxWords, includeHeaders)
parseMessageToEmailDetails(message, maxWords, includeHeaders) ==
    LET fullTextBody == extractTextContent(message)
        truncatedText ==
            IF maxWords > 0
            THEN truncateText(fullTextBody, maxWords).truncatedText
            ELSE fullTextBody
        allHeaders == message.payload.headers
        filteredHeaders ==
            SelectSeq(allHeaders,
                      LAMBDA header :
                          \E n \in 1..Len(includeHeaders) :
                              includeHeaders[n] = header.name)
    IN  [id |-> message.id,
         snippet |-> message.snippet,
         textBody |-> truncatedText,
         headers |-> filteredHeaders]

\* contentType.match(/boundary="?([^"]+)"?/): the captured group, or <<>>
BoundaryMatch(contentType) ==
    LET k == IndexOf(contentType, <<"boundary=">>)
        rest == SubSeq(contentType, k + 1, Len(contentType))
        open == IF rest # <<>> /\ Head(rest) = "\"" THEN Tail(rest) ELSE rest
        q == IndexOf(open, <<"\"">>)
    IN  IF k = 0 THEN <<>>
        ELSE IF q = 0 THEN open ELSE SubSeq(open, 1, q - 1)

\* the loop over the parts of the response text
RECURSIVE EmailDetailsList(_)
EmailDetailsList(parts) ==
    IF parts = <<>> THEN <<>>
    ELSE LET part == Head(parts)
             braces == {n \in 1..Len(part) : part[n] \in JsonTexts}
             jsonStartIndex == IF braces = {} THEN 0
                               ELSE CHOOSE n \in braces :
                                      \A m \in braces : n <= m
             parsedJson == JSONparse(SubSeq(part, jsonStartIndex, Len(part)))
             rest == EmailDetailsList(Tail(parts))
         IN  IF part = <<>> \/ part = <<"--">> THEN rest
             ELSE IF jsonStartIndex = 0 THEN rest
             ELSE IF ~parsedJson.ok THEN rest
             ELSE IF parsedJson.error THEN rest
             ELSE <<parseMessageToEmailDetails(
                        parsedJson, 300, <<"From", "Subject", "Date", "To">>)>>
                      \o rest

\* the parts of the response text: split at the boundary, each trimmed
ResponseParts(responseText, responseBoundary) ==
    LET raw == Split(responseText, <<"--">> \o responseBoundary)
    IN  [n \in 1..Len(raw) |-> Trim(raw[n])]

(***************************************************************************)
(* What the upstream service answers.                                      *)
(***************************************************************************)
\* the HTTP statuses a rejected upstream call carries; 0: no response
HttpStatuses == {0, 400, 401, 403, 404, 429, 500}

\* response.data of messages.list: nothing at all, or a page
NoData == [data |-> FALSE]
ListResponses ==
    {NoData} \cup
    [data : {TRUE},
     messages : {[present |-> FALSE, ids |-> <<>>]}
                  \cup {[present |-> TRUE, ids |-> MessageIds(n)] :
                          n \in {0, 1, 2, MaxIds}},
     nextPageToken : {NoString, Str(<<>>), Str(<<"p", "2">>)},
     resultSizeEstimate : {NoNumber, Num(0), Num(7)}]

\* the segments of a batch response: two messages, an embedded error, a
\* JSON text that does not parse, a segment without JSON, an empty segment
SegmentLists ==
    UNION {[1..n -> {"m1", "m2", "error", "broken", "nobrace", "empty"}] :
               n \in 0..MaxSegments}

SegmentText(kind) ==
    CASE kind = "m1" -> <<"headers", CRLF, CRLF, "{m1}", CRLF>>
      [] kind = "m2" -> <<"headers", CRLF, CRLF, "{m2}", CRLF>>
      [] kind = "error" -> <<"headers", CRLF, CRLF, "{error}", CRLF>>
      [] kind = "broken" -> <<"headers", CRLF, CRLF, "{broken", CRLF>>
      [] kind = "nobrace" -> <<"headers", CRLF, CRLF, "body", CRLF>>
      [] kind = "empty" -> <<>>

\* a multipart text with the given boundary and segments
RECURSIVE MultipartText(_, _)
MultipartText(boundary, segments) ==
    IF segments = <<>> THEN <<"--", boundary, "--">>
    ELSE <<"--", boundary, CRLF>> \o SegmentText(Head(segments))
           \o MultipartText(boundary, Tail(segments))

\* the Content-Type headers a batch response comes with
ContentTypes(boundary) ==
    { <<>>,
      <<"application/json">>,
      <<"multipart/mixed; ", "boundary=", boundary>>,
      <<"multipart/mixed; ", "boundary=", "\"", boundary, "\"">>,
      <<"multipart/mixed; ", "boundary=", boundary, "; charset=UTF-8">> }

\* the responses of the batch endpoint
BatchResponses ==
    [dataKind : {"string"}, status : {200},
     contentType : ContentTypes("B1"), segments : SegmentLists]
    \cup [dataKind : {"blob", "object"}, status : {200},
          contentType : {<<"multipart/mixed; ", "boundary=", "B1">>},
          segments : {<<"m1">>}]

\* response.data as text
ResponseText(response) == MultipartText("B1", response.segments)

\* the most attendees of a fetched event
MaxAttendees == 2

\* event.attendees of events.get: undefined or a list
EventResponses ==
    {[present |-> FALSE, attendees |-> <<>>]}
    \cup {[present |-> TRUE, attendees |-> a] :
            a \in UNION {[1..n -> [email : {AddrMe, AddrAnn, AddrBob},
                                    responseStatus : {"accepted",
                                                      "needsAction"}]] :
                              n \in 0..MaxAttendees}}

(***************************************************************************)
(* The operations, step by step.  A step runs the operation from where it  *)
(* stands to its next await, its return or its throw.                      *)
(***************************************************************************)
NoError == [kind |-> "none", class |-> "", code |-> "", status |-> 0,
            message |-> <<>>]
NoCall == [call |-> "none"]
NoResult == [kind |-> "none"]

\* what a step ends in: a return, a throw (of `error`, caught as `cause`),
\* or an upstream call
Return(value) ==
    [kind |-> "return", value |-> value, cause |-> NoError,
     error |-> NoError, call |-> NoCall]
Raise(cause, error) ==
    [kind |-> "throw", value |-> NoResult, cause |-> cause,
     error |-> error, call |-> NoCall]
Await(call) ==
    [kind |-> "await", value |-> NoResult, cause |-> NoError,
     error |-> NoError, call |-> call]

\* the catch block of each operation
Catch(op, error) ==
    CASE op = "getEmailList" ->
           handleGmailError(error, "Failed to fetch email list")
      [] op = "batchGetEmailDetails" ->
           handleGmailError(error, "Failed to batch fetch email details")
      [] op = "getEmailDetails" -> getEmailDetailsCatch(error)
      [] op = "listCalendars" ->
           handleCalendarError(error, "Failed to list calendars")
      [] op = "listEvents" ->
           handleCalendarError(error, "Failed to list events")
      [] op = "createEvent" ->
           handleCalendarError(error, "Failed to create event")
      [] op = "declineEvent" ->
           handleCalendarError(error, "Failed to decline event")

\* the first upstream call of an operation
FirstCall(op) ==
    CASE op = "getEmailList" -> [call |-> "messages.list"]
      [] op = "getEmailDetails" -> [call |-> "messages.get"]
      [] op = "listCalendars" -> [call |-> "calendarList.list"]
      [] op = "listEvents" -> [call |-> "events.list"]
      [] op = "createEvent" -> [call |-> "events.insert"]
      [] op = "declineEvent" -> [call |-> "getTokenInfo"]

\* a variant that sends the first hundred identifiers of a longer list
batchGetEmailDetailsStart_Truncating(messageIds) ==
    IF Len(messageIds) = 0 THEN Return(<<>>)
    ELSE Await([call |-> "batch",
                body |-> BatchRequestBody(
                           IF Len(messageIds) > BatchLimit
                           THEN SubSeq(messageIds, 1, BatchLimit)
                           ELSE messageIds)])

\* batchGetEmailDetails up to its await
batchGetEmailDetailsStart(messageIds) ==
    IF Len(messageIds) = 0 THEN Return(<<>>)
    ELSE IF Len(messageIds) > BatchLimit
    THEN LET e == ServiceError("GmailServiceError",
                               <<"Cannot batch get more than 100 emails">>,
                               "BATCH_SIZE_EXCEEDED", 0)
         IN  Raise(e, e)
    ELSE Await([call |-> "batch", body |-> BatchRequestBody(messageIds)])

\* batchGetEmailDetails from the response of the batch endpoint on
batchGetEmailDetailsResume(response) ==
    LET invalid == HttpError(response.status)
        thrown(defaultMessage) ==
            Catch("batchGetEmailDetails",
                  handleGmailError(invalid, defaultMessage))
        responseBoundary == BoundaryMatch(response.contentType)
    IN  IF response.dataKind \notin {"string", "blob"}
        THEN Raise(invalid, thrown("Unexpected response data type"))
        ELSE IF IndexOf(response.contentType, <<"boundary=">>) = 0
        THEN Raise(invalid, thrown("Missing or malformed Content-Type header"))
        ELSE IF responseBoundary = <<>>
        THEN Raise(invalid, thrown("Could not find boundary"))
        ELSE Return(EmailDetailsList(
                      ResponseParts(ResponseText(response), responseBoundary)))

\* the page getEmailList returns: nextPageToken || undefined,
\* resultSizeEstimate || 0
EmailListResponse(messages, data) ==
    [messages |-> messages,
     nextPageToken |->
         IF data.nextPageToken.present /\ data.nextPageToken.v # <<>>
         THEN data.nextPageToken ELSE NoString,
     resultSizeEstimate |->
         IF data.resultSizeEstimate.present THEN data.resultSizeEstimate.v
         ELSE 0]

\* a batch step inside getEmailList: its throw passes the outer catch
InsideGetEmailList(effect, data) ==
    IF effect.kind = "throw"
    THEN Raise(effect.cause, Catch("getEmailList", effect.error))
    ELSE IF effect.kind = "return"
    THEN Return(EmailListResponse(effect.value, data))
    ELSE effect

\* the options getEmailHeaders calls getEmailDetails with
getEmailHeadersOptions(messageId) ==
    [messageId |-> messageId, format |-> Str(<<"metadata">>),
     maxWords |-> NoNumber, includeHeaders |-> Str(<<>>)]

\* a step of getEmailDetails inside getEmailHeaders: its return is reduced
\* to emailDetails.headers, its throw passes the outer catch
InsideGetEmailHeaders(effect) ==
    IF effect.kind = "throw"
    THEN Raise(effect.cause,
               ServiceError("GmailServiceError",
                            <<"Failed to fetch email headers: ">>
                              \o effect.error.message,
                            "HEADERS_FETCH_ERROR", 0))
    ELSE IF effect.kind = "return"
    THEN Return(effect.value.headers)
    ELSE effect

\* a variant that fetches the details whether they were asked for or not
getEmailListResume_AlwaysBatch(o, data) ==
    LET ids == IF data.messages.present THEN data.messages.ids ELSE <<>>
        noData == ServiceError("GmailServiceError", <<"No data received">>,
                               "NO_DATA_RECEIVED", 0)
    IN  IF ~data.data
        THEN Raise(noData, Catch("getEmailList", noData))
        ELSE IF Len(ids) = 0
        THEN Return(EmailListResponse(<<>>, data))
        ELSE InsideGetEmailList(batchGetEmailDetailsStart(ids), data)

\* getEmailList from the response of messages.list on
getEmailListResume(o, data) ==
    LET ids == IF data.messages.present THEN data.messages.ids ELSE <<>>
        noData == ServiceError("GmailServiceError", <<"No data received">>,
                               "NO_DATA_RECEIVED", 0)
    IN  IF ~data.data
        THEN Raise(noData, Catch("getEmailList", noData))
        ELSE IF o.fetchDetails
        THEN IF Len(ids) = 0
             THEN Return(EmailListResponse(<<>>, data))
             ELSE InsideGetEmailList(batchGetEmailDetailsStart(ids), data)
        ELSE Return(EmailListResponse(
                      [k \in 1..Len(ids) |-> [id |-> ids[k], threadId |-> ids[k]]],
                      data))

\* getEmailDetails from the response of messages.get on; maxWords and
\* includeHeaders are options.maxWords ?? 300 and options.includeHeaders ??
\* ['From', 'Subject', 'Date', 'To']
getEmailDetailsResume(o, data) ==
    LET noData == ServiceError("GmailServiceError", <<"No data received">>,
                               "NO_DATA_RECEIVED", 0)
        maxWords == IF o.maxWords.present THEN o.maxWords.v ELSE 300
        includeHeaders == IF o.includeHeaders.present THEN o.includeHeaders.v
                          ELSE <<"From", "Subject", "Date", "To">>
    IN  IF ~data.data
        THEN Raise(noData, Catch("getEmailDetails", noData))
        ELSE Return(parseMessageToEmailDetails(data, maxWords, includeHeaders))

\* a variant that appends the caller whether or not the list has them
updatedAttendees_AlwaysAppend(event, userEmail) ==
    LET attendees == IF event.present THEN event.attendees ELSE <<>>
        mapped == [n \in 1..Len(attendees) |->
                     IF attendees[n].email = userEmail
                     THEN [attendees[n] EXCEPT !.responseStatus = "declined"]
                     ELSE attendees[n]]
    IN  Append(mapped, [email |-> userEmail, responseStatus |-> "declined"])

\* the attendee list declineEvent patches the event with
updatedAttendees(event, userEmail) ==
    LET attendees == IF event.present THEN event.attendees ELSE <<>>
        found == \E n \in 1..Len(attendees) : attendees[n].email = userEmail
        mapped == [n \in 1..Len(attendees) |->
                     IF attendees[n].email = userEmail
                     THEN [attendees[n] EXCEPT !.responseStatus = "declined"]
                     ELSE attendees[n]]
    IN  IF found THEN mapped
        ELSE Append(mapped, [email |-> userEmail,
                             responseStatus |-> "declined"])

\* declineEvent from the answer of getTokenInfo on
declineEventAfterTokenInfo(tokenInfo) ==
    LET noEmail == ServiceError("GCalendarServiceError",
                                <<"Could not determine user email">>,
                                "USER_EMAIL_NOT_FOUND", 0)
    IN  IF ~tokenInfo.email.present \/ tokenInfo.email.v = <<>>
        THEN Raise(noEmail, Catch("declineEvent", noEmail))
        ELSE Await([call |-> "events.get"])

\* declineEvent from the answer of events.get on
declineEventAfterGet(event, userEmail) ==
    Await([call |-> "events.patch",
           attendees |-> updatedAttendees(event, userEmail),
           sendNotifications |-> TRUE])

\* an operation has been called with its arguments
Called(op, args) ==
    [pc |-> "called", op |-> op, args |-> args, gateway |-> FALSE,
     raw |-> args,
     step |-> "none",
     list |-> NoData, batch |-> [dataKind |-> "none"], message |-> NoData,
     userEmail |-> <<>>,
     event |-> [present |-> FALSE, attendees |-> <<>>],
     cause |-> NoError, thrown |-> NoError, result |-> NoResult]

\* the input schema of the gmail_get_details tool applied to the arguments
\* of a tool call: whether they pass, and the options handed to the handler
\* (the default filled in, keys the schema does not declare stripped)
gmail_get_details(raw) ==
    [ok |-> /\ raw.messageId.present /\ Len(raw.messageId.v) >= 1
            /\ OptionalEnum(raw.format, {<<"minimal">>, <<"full">>, <<"raw">>,
                                         <<"metadata">>})
            /\ OptionalNumberBetween(raw.maxWords, 300, 3000),
     options |-> [raw EXCEPT !.maxWords = IF raw.maxWords.present
                                          THEN raw.maxWords ELSE Num(1000),
                             !.includeHeaders = NoString]]

\* an operation called directly, or getEmailDetails called by the handler
\* of the gmail_get_details tool with the options its schema hands over
\* (a tool call the schema rejects never reaches the handler)
ServiceInit ==
    /\ GatewayInit
    /\ \/ \E op \in Operations \cup {"batchGetEmailDetails",
                                      "getEmailHeaders"} :
            \E args \in ArgumentsOf(op) : svc = Called(op, args)
       \/ \E raw \in ArgumentsOf("getEmailDetails") :
            svc = IF gmail_get_details(raw).ok
                  THEN [Called("getEmailDetails",
                               gmail_get_details(raw).options)
                          EXCEPT !.gateway = TRUE, !.raw = raw]
                  ELSE [Called("none", raw) EXCEPT !.pc = "rejected",
                                                   !.gateway = TRUE]
    /\ wire = <<>>
    /\ trunc = [pc |-> "none"]
    /\ extract = [pc |-> "none"]
    /\ conv = [pc |-> "none"]
    /\ dec = <<>>
    /\ cal = <<>>

\* the operation, standing at `base`, ends its step in `effect`
Apply(effect, base) ==
    /\ svc' = [base EXCEPT
                 !.pc = CASE effect.kind = "return" -> "returned"
                          [] effect.kind = "throw" -> "thrown"
                          [] effect.kind = "await" -> "awaiting",
                 !.step = effect.call.call,
                 !.cause = effect.cause,
                 !.thrown = effect.error,
                 !.result = effect.value]
    /\ wire' = IF effect.kind = "await" THEN Append(wire, effect.call)
                                        ELSE wire

\* a variant that issues the first upstream call without validating
ServiceCall_Unvalidated ==
    /\ svc.pc = "called"
    /\ Apply(IF svc.op = "batchGetEmailDetails"
             THEN batchGetEmailDetailsStart(svc.args.messageIds)
             ELSE IF svc.op = "getEmailHeaders"
             THEN Await(FirstCall("getEmailDetails"))
             ELSE Await(FirstCall(svc.op)),
             svc)
    /\ UNCHANGED <<gatewayVars, trunc, extract, conv, dec, cal>>

\* the operation runs from its call to its first await, return or throw
ServiceCall ==
    /\ svc.pc = "called"
    /\ Apply(IF svc.op = "batchGetEmailDetails"
             THEN batchGetEmailDetailsStart(svc.args.messageIds)
             ELSE IF svc.op = "getEmailHeaders"
             THEN InsideGetEmailHeaders(
                    IF ~SchemaAccepts("getEmailDetails",
                                      getEmailHeadersOptions(
                                        svc.args.messageId))
                    THEN Raise(ZodError, Catch("getEmailDetails", ZodError))
                    ELSE Await(FirstCall("getEmailDetails")))
             ELSE IF ~SchemaAccepts(svc.op, svc.args)
             THEN Raise(ZodError, Catch(svc.op, ZodError))
             ELSE Await(FirstCall(svc.op)),
             svc)
    /\ UNCHANGED <<gatewayVars, trunc, extract, conv, dec, cal>>

\* what the upstream service can answer to a call
AnswersTo(step) ==
    CASE step = "messages.list" -> ListResponses
      [] step = "batch" -> BatchResponses
      [] step = "messages.get" ->
           {NoData}
           \cup {[data |-> TRUE, id |-> "m1", snippet |-> <<"s">>,
                  payload |->
                      [mimeType |-> "text/plain",
                       data |-> InlineData([k \in 1..n |-> "YSA"]),
                       parts |-> NoParts,
                       headers |-> <<[name |-> "From", value |-> "ann"],
                                     [name |-> "X-Id", value |-> "7"],
                                     [name |-> "Subject", value |-> "hi"]>>]] :
                    n \in BodyWords}
      [] step = "getTokenInfo" ->
           {[email |-> NoString], [email |-> Str(<<>>)],
            [email |-> Str(AddrMe)]}
      [] step = "events.get" -> EventResponses
      [] step \in {"calendarList.list", "events.list", "events.insert",
                   "events.patch"} -> {[kind |-> "data"]}
      [] OTHER -> {}

\* the pending upstream call returns `data`
CallResolves(data) ==
    /\ svc.pc = "awaiting"
    /\ CASE svc.step = "messages.list" ->
              Apply(getEmailListResume(svc.args, data),
                    [svc EXCEPT !.list = data])
         [] svc.step = "batch" ->
              Apply(IF svc.op = "getEmailList"
                    THEN InsideGetEmailList(batchGetEmailDetailsResume(data),
                                            svc.list)
                    ELSE batchGetEmailDetailsResume(data),
                    [svc EXCEPT !.batch = data])
         [] svc.step = "messages.get" ->
              Apply(IF svc.op = "getEmailHeaders"
                    THEN InsideGetEmailHeaders(
                           getEmailDetailsResume(
                             getEmailHeadersOptions(svc.args.messageId),
                             data))
                    ELSE getEmailDetailsResume(svc.args, data),
                    [svc EXCEPT !.message = data])
         [] svc.step = "getTokenInfo" ->
              Apply(declineEventAfterTokenInfo(data),
                    [svc EXCEPT !.userEmail = data.email.v])
         [] svc.step = "events.get" ->
              Apply(declineEventAfterGet(data, svc.userEmail),
                    [svc EXCEPT !.event = data])
         [] OTHER -> Apply(Return(data), svc)
    /\ UNCHANGED <<gatewayVars, trunc, extract, conv, dec, cal>>

\* a variant that issues a rate-limited call a second time
CallRejects_Retry(error) ==
    /\ svc.pc = "awaiting"
    /\ Apply(IF error.status = 429
                /\ Cardinality({n \in 1..Len(wire) :
                                  wire[n].call = svc.step}) = 1
             THEN Await(wire[Len(wire)])
             ELSE IF svc.op = "getEmailList" /\ svc.step = "batch"
             THEN InsideGetEmailList(
                    Raise(error, Catch("batchGetEmailDetails", error)),
                    svc.list)
             ELSE IF svc.op = "getEmailHeaders"
             THEN InsideGetEmailHeaders(
                    Raise(error, Catch("getEmailDetails", error)))
             ELSE Raise(error, Catch(svc.op, error)),
             svc)
    /\ UNCHANGED <<gatewayVars, trunc, extract, conv, dec, cal>>

\* the pending upstream call rejects with `error`
CallRejects(error) ==
    /\ svc.pc = "awaiting"
    /\ Apply(IF svc.op = "getEmailList" /\ svc.step = "batch"
             THEN InsideGetEmailList(
                    Raise(error, Catch("batchGetEmailDetails", error)),
                    svc.list)
             ELSE IF svc.op = "getEmailHeaders"
             THEN InsideGetEmailHeaders(
                    Raise(error, Catch("getEmailDetails", error)))
             ELSE Raise(error, Catch(svc.op, error)),
             svc)
    /\ UNCHANGED <<gatewayVars, trunc, extract, conv, dec, cal>>

ServiceNext ==
    \/ ServiceCall
    \/ \E data \in AnswersTo(svc.step) : CallResolves(data)
    \/ \E status \in HttpStatuses : CallRejects(HttpError(status))

ServiceSpec == ServiceInit /\ [][ServiceNext]_vars

(***************************************************************************)
(* Two declineEvent invocations on one event, by two callers.  Each runs   *)
(* getTokenInfo, events.get and events.patch against the same upstream     *)
(* event; upstream, events.patch replaces the attendee list of the event   *)
(* by the one of the request body.                                         *)
(*   dec[p] : where invocation p stands, the address its token resolves    *)
(*            to, the userEmail it read, the attendee list it will send    *)
(*   cal    : the event held upstream, and the event as it was at first    *)
(***************************************************************************)
DeclineInit ==
    /\ GatewayInit
    /\ svc = [pc |-> "none"]
    /\ wire = <<>>
    /\ trunc = [pc |-> "none"]
    /\ extract = [pc |-> "none"]
    /\ conv = [pc |-> "none"]
    /\ dec = [p \in 1..2 |->
                [pc |-> "getTokenInfo", caller |-> <<AddrMe, AddrAnn>>[p],
                 userEmail |-> <<>>, attendees |-> <<>>, code |-> ""]]
    /\ \E event \in EventResponses :
         cal = [event |-> event, original |-> event]

\* the pending upstream call of invocation p returns: getTokenInfo with or
\* without the caller's address, events.get with the event as it is held
\* upstream now, events.patch after the event took the attendees sent
DeclineResolves(p) ==
    /\ p \in DOMAIN dec
    /\ \/ /\ dec[p].pc = "getTokenInfo"
          /\ \E tokenInfo \in {[email |-> NoString],
                               [email |-> Str(dec[p].caller)]} :
               LET step == declineEventAfterTokenInfo(tokenInfo)
               IN  dec' = [dec EXCEPT ![p] =
                             IF step.kind = "await"
                             THEN [@ EXCEPT !.pc = step.call.call,
                                            !.userEmail = tokenInfo.email.v]
                             ELSE [@ EXCEPT !.pc = "failed",
                                            !.code = step.error.code]]
          /\ cal' = cal
       \/ /\ dec[p].pc = "events.get"
          /\ LET step == declineEventAfterGet(cal.event, dec[p].userEmail)
             IN  dec' = [dec EXCEPT ![p] =
                           [@ EXCEPT !.pc = step.call.call,
                                     !.attendees = step.call.attendees]]
          /\ cal' = cal
       \/ /\ dec[p].pc = "events.patch"
          /\ dec' = [dec EXCEPT ![p] = [@ EXCEPT !.pc = "returned"]]
          /\ cal' = [cal EXCEPT !.event = [present |-> TRUE,
                                           attendees |-> dec[p].attendees]]
    /\ UNCHANGED <<gatewayVars, svc, wire, trunc, extract, conv>>

\* the pending upstream call of invocation p rejects: handleCalendarError
DeclineRejects(p, error) ==
    /\ p \in DOMAIN dec
    /\ dec[p].pc \in {"getTokenInfo", "events.get", "events.patch"}
    /\ dec' = [dec EXCEPT ![p] =
                 [@ EXCEPT !.pc = "failed",
                           !.code = Catch("declineEvent", error).code]]
    /\ UNCHANGED <<gatewayVars, svc, wire, trunc, extract, conv, cal>>

DeclineSpec ==
    DeclineInit
    /\ [][\/ \E p \in 1..2 : DeclineResolves(p)
          \/ \E p \in 1..2, status \in HttpStatuses :
               DeclineRejects(p, HttpError(status))]_vars

(***************************************************************************)
(* Properties.                                                             *)
(***************************************************************************)
\* the bearer token a request's own headers carry
RequestToken(h) ==
    IF h = H_T1 THEN TokenT1 ELSE IF h = H_T2 THEN TokenT2 ELSE <<>>

\* C1: every POST, GET or DELETE that carries the id of an active session
\* leaves exactly its own headers as the session's stored headers in the
\* step that hands it to the transport, and a tool call whose session
\* received no further request before its handler ran builds its client
\* from the token of the request that carried it.
C1_HeadersReplacedBeforeDispatch ==
    [][ /\ \A k \in Ids, h \in HeaderSet :
             ( /\ k \in DOMAIN transports
               /\ \/ \E body \in Bodies : PostReuse(k, h, body)
                  \/ \E m \in Methods : SessionRequest(m, k, h) )
             => (sessionHeaders'[k] = h /\ resp' = Response("handed", k))
        /\ \A i \in Slots :
             (inv[i].pc = "idle" /\ inv'[i].pc = "dispatched")
             => sessionHeaders'[inv'[i].sid] = inv'[i].req
        /\ \A i \in Slots :
             (inv[i].pc = "dispatched" /\ ~inv[i].stale
                /\ inv'[i].pc = "awaiting")
             => inv'[i].tok = RequestToken(inv[i].req)
      ]_vars

\* C1 witness: a tool call carried by a 'Bearer T2' request that replaced
\* 'Bearer T1' has built its client from T2
C1_Witness ==
    \E i \in Slots :
        /\ inv[i].pc = "awaiting"
        /\ ~inv[i].stale
        /\ inv[i].prev = H_T1
        /\ inv[i].req = H_T2
        /\ inv[i].tok = TokenT2

\* a request carrying session id k arrives
RequestWith(k) ==
    \/ \E body \in Bodies, h \in HeaderSet : PostReuse(k, h, body)
    \/ \E body \in Bodies, h \in HeaderSet : PostInitialize(k, h, body)
    \/ \E body \in Bodies : PostBadRequest(k, body)
    \/ \E m \in Methods, h \in HeaderSet : SessionRequest(m, k, h)
    \/ \E m \in Methods : SessionRequestRejected(m, k)

\* C2: the closure of an active session's transport removes the transport
\* entry and the header entry of its id in one step; a closed session stays
\* closed, its id never gets an entry again, and every later request that
\* carries the id is answered 400.
C2_ClosedIsTerminal ==
    [][ \A n \in 1..MaxSessions :
          /\ (tr[n].phase = "active" /\ tr'[n].phase # "active")
             => /\ tr'[n].phase = "closed"
                /\ IdPool[n] \notin DOMAIN transports'
                /\ IdPool[n] \notin DOMAIN sessionHeaders'
          /\ tr[n].phase = "closed"
             => /\ tr'[n].phase = "closed"
                /\ IdPool[n] \notin DOMAIN transports'
                /\ IdPool[n] \notin DOMAIN sessionHeaders'
                /\ RequestWith(IdPool[n]) => resp' = Response("400", IdPool[n])
                /\ resp'.key = IdPool[n] => resp'.status = "400"
      ]_vars

\* C2 witness: a session that was active is closed and a request carrying its
\* id has just been answered 400
C2_Witness ==
    \E n \in 1..MaxSessions :
        /\ tr[n].phase = "closed"
        /\ tr[n].sessionId = IdPool[n]
        /\ resp = Response("400", IdPool[n])

\* a POST carrying session id k and a body of kind `body` arrives
PostWith(k, body) ==
    \/ \E h \in HeaderSet : PostReuse(k, h, body)
    \/ \E h \in HeaderSet : PostInitialize(k, h, body)
    \/ PostBadRequest(k, body)

\* a GET or DELETE carrying session id k arrives
GetOrDeleteWith(k) ==
    \/ \E m \in Methods, h \in HeaderSet : SessionRequest(m, k, h)
    \/ \E m \in Methods : SessionRequestRejected(m, k)

\* the session id has an entry in the transport registry
Registered(k) == k \in DOMAIN transports

\* C3 (as claimed): a POST with a non-empty unregistered id (whatever its
\* body), a POST without id whose body is no initialization, and a GET or
\* DELETE without id or with an unregistered id are answered 400, reach no
\* transport and leave every transport and header entry unchanged.
C3_UnknownSessionRejected ==
    [][ \A k \in RequestKeys :
          /\ \A body \in Bodies :
               ( /\ PostWith(k, body)
                 /\ \/ (k # NoSessionId /\ ~Registered(k))
                    \/ (k = NoSessionId /\ ~isInitializeRequest(body)) )
               => /\ resp' = Response("400", k)
                  /\ UNCHANGED <<transports, sessionHeaders, tr, inv>>
          /\ (GetOrDeleteWith(k) /\ (k = NoSessionId \/ ~Registered(k)))
             => /\ resp' = Response("400", k)
                /\ UNCHANGED <<transports, sessionHeaders, tr, inv>>
      ]_vars

\* C4: the id minted for an initialization has no transport entry and no
\* header entry unless its transport has confirmed it (before the callback,
\* and after an initialization that failed), and the callback inserts the
\* transport together with the headers of the initializing request.
C4_RegisteredOnlyOnConfirmation ==
    [][ \A n \in 1..MaxSessions :
          /\ tr'[n].phase # "active"
             => /\ IdPool[n] \notin DOMAIN transports'
                /\ IdPool[n] \notin DOMAIN sessionHeaders'
          /\ (tr[n].phase # "active" /\ tr'[n].phase = "active")
             => /\ tr[n].phase = "handling"
                /\ IdPool[n] \notin DOMAIN transports
                /\ IdPool[n] \notin DOMAIN sessionHeaders
                /\ transports'[IdPool[n]] = n
                /\ sessionHeaders'[IdPool[n]] = tr[n].hdr
      ]_vars

\* C4 witness: one initialization failed and another waits for its callback,
\* and neither minted id has an entry
C4_Witness ==
    \E n, m \in 1..MaxSessions :
        /\ tr[n].phase = "failed"
        /\ tr[m].phase = "handling"
        /\ tr[m].hdr = H_T1
        /\ {IdPool[n], IdPool[m]} \cap DOMAIN transports = {}
        /\ {IdPool[n], IdPool[m]} \cap DOMAIN sessionHeaders = {}

C6_InFlightCallKeepsToken ==
    /\ [][ \A i \in Slots :
             inv[i].pc = "awaiting"
             => /\ inv'[i].pc \in {"awaiting", "done", "failed"}
                /\ inv'[i].pc = "awaiting"
                   => /\ inv'[i].tok = inv[i].tok
                      /\ inv'[i].sid = inv[i].sid
                      /\ inv'[i].tool = inv[i].tool
                /\ (sessionHeaders' # sessionHeaders \/ transports' # transports)
                   => inv'[i] = inv[i]
         ]_vars
    /\ \A i \in Slots :
         (inv[i].pc = "awaiting") ~> (inv[i].pc \in {"done", "failed"})

\* C6 witness: an invocation is on its third upstream call with token T1
\* while its session's stored headers already carry T2
C6_Witness ==
    \E i \in Slots :
        /\ inv[i].pc = "awaiting"
        /\ inv[i].calls = 3
        /\ inv[i].tok = TokenT1
        /\ inv[i].sid \in DOMAIN sessionHeaders
        /\ sessionHeaders[inv[i].sid] = H_T2

\* the handler of the invocation has run
Ran(i) == inv[i].pc \in {"awaiting", "done", "failed"}

\* the invocation failed with `codes` before any upstream call
FailedEarly(i, codes) ==
    inv[i].pc = "failed" /\ inv[i].code \in codes /\ inv[i].calls = 0

\* the string an entry stands for: itself, or the first element of a list
FirstValue(v) ==
    IF v.kind = "list"
    THEN (IF Len(v.l) > 0 THEN HStr(v.l[1]) ELSE HUndef)
    ELSE v

\* one of the two entries holds a non-empty value
AuthorizationPresent(h) ==
    Truthy(FirstValue(h.authorization)) \/ Truthy(FirstValue(h.Authorization))

\* the entry starts with 'Bearer '
CarriesBearer(v) ==
    FirstValue(v).kind = "string" /\ StartsWith(FirstValue(v).s, BearerPrefix)

\* the entry is 'Bearer ' followed by a non-empty token
WellFormedBearer(v) ==
    CarriesBearer(v) /\ Len(FirstValue(v).s) > Len(BearerPrefix)

\* C7: a tool invocation fails with NO_SESSION_CONTEXT when its session has
\* no stored headers, with MISSING_AUTHORIZATION when the stored headers have
\* no authorization entry, and with INVALID_BEARER_TOKEN when an entry is
\* present but none is a well-formed bearer token; never after an upstream
\* call.
C7_AuthFailureCodes ==
    \A i \in Slots :
        Ran(i) =>
          IF inv[i].sid \notin DOMAIN sessionHeaders
          THEN FailedEarly(i, {"NO_SESSION_CONTEXT"})
          ELSE LET h == sessionHeaders[inv[i].sid]
               IN  /\ ~AuthorizationPresent(h)
                      => FailedEarly(i, {"MISSING_AUTHORIZATION"})
                   /\ (/\ AuthorizationPresent(h)
                       /\ ~WellFormedBearer(h.authorization)
                       /\ ~WellFormedBearer(h.Authorization))
                      => FailedEarly(i, {"INVALID_BEARER_TOKEN"})

\* C8: with the stored authorization header exactly 'Bearer ', a tool
\* invocation fails with INVALID_BEARER_TOKEN or MISSING_BEARER_TOKEN before
\* any upstream call, and its session stays registered.
C8_EmptyBearerToken ==
    \A i \in Slots :
        (/\ Ran(i)
         /\ inv[i].sid \in DOMAIN sessionHeaders
         /\ sessionHeaders[inv[i].sid] = Headers(HStr(BearerPrefix), HUndef))
        => /\ FailedEarly(i, {"INVALID_BEARER_TOKEN", "MISSING_BEARER_TOKEN"})
           /\ inv[i].sid \in DOMAIN transports

\* the invocation still records what extractBearerToken returned
Extracted(i) ==
    /\ inv[i].sid \in DOMAIN sessionHeaders
    /\ \/ inv[i].pc = "failed" /\ inv[i].calls = 0
       \/ inv[i].pc = "awaiting" /\ inv[i].calls = 1

\* the token after the prefix of an entry that carries a bearer value
TokenOf(v) == Some(Substring(FirstValue(v).s, Len(BearerPrefix)))

\* C9 as stated: extractBearerToken returns the token of whichever casing
\* carries a bearer value, and null when neither does.
C9_EitherCasingCarriesBearer ==
    \A i \in Slots :
        Extracted(i) =>
          LET h == sessionHeaders[inv[i].sid]
              carriers == {v \in {h.authorization, h.Authorization} :
                             CarriesBearer(v)}
          IN  IF carriers = {}
              THEN inv[i].ext = Null
              ELSE inv[i].ext \in {TokenOf(v) : v \in carriers}

\* C9, amended: extractBearerToken examines the 'authorization' entry when
\* it is a non-empty string or any list, and the 'Authorization' entry
\* otherwise; it returns the token after the prefix when the examined value
\* (the first element, for a list) starts with 'Bearer ', and null in every
\* other case.
C9_ExtractBearerTokenContract ==
    \A i \in Slots :
        Extracted(i) =>
          LET h == sessionHeaders[inv[i].sid]
              examined == IF Truthy(h.authorization) THEN h.authorization
                                                     ELSE h.Authorization
          IN  inv[i].ext = IF CarriesBearer(examined) THEN TokenOf(examined)
                                                      ELSE Null

\* C9 witness: 'authorization' holds a non-bearer value, 'Authorization' a
\* bearer value, and the extractor returned null
C9_Witness ==
    \E i \in Slots :
        /\ Extracted(i)
        /\ sessionHeaders[inv[i].sid] =
             Headers(HStr(BasicT1), HStr(BearerPrefix \o TokenT1))
        /\ inv[i].ext = Null
        /\ inv[i].pc = "failed"

\* the message holds the code between square brackets
Bracketed(msg, code) ==
    \E n \in 1..(Len(msg) - 2) :
        msg[n] = "[" /\ msg[n + 1] = code /\ msg[n + 2] = "]"

\* a tools/call request of session k is handed over and its call dispatched
DispatchTo(k) ==
    /\ PostReuse(k, H_T1, "tools/call")
    /\ resp' = Response("handed", k)
    /\ \E i \in Slots : inv'[i].pc = "dispatched" /\ inv'[i].sid = k

\* C10: a failed invocation carries one message with its code in square
\* brackets; the step in which an invocation fails changes neither the
\* transports nor the stored headers nor any transport; and every registered
\* session accepts a tool call whenever a handler slot is free.
C10_FailureIsContained ==
    /\ [](\A i \in Slots :
            inv[i].pc = "failed"
            => inv[i].code # "" /\ Bracketed(inv[i].msg, inv[i].code))
    /\ [][ \A i \in Slots :
             (inv[i].pc # "failed" /\ inv'[i].pc = "failed")
             => /\ transports' = transports
                /\ sessionHeaders' = sessionHeaders
                /\ tr' = tr
         ]_vars
    /\ [](\A k \in DOMAIN transports :
            (\E i \in Slots : inv[i].pc = "idle") => ENABLED DispatchTo(k))

\* C10 witness: a calendar invocation failed upstream with a bracketed code
\* while its session is active with its transport and headers in place
C10_Witness ==
    \E i \in Slots :
        /\ inv[i].pc = "failed"
        /\ inv[i].tool = "gcalendar_decline_event"
        /\ inv[i].code = "NOT_FOUND"
        /\ Bracketed(inv[i].msg, inv[i].code)
        /\ inv[i].sid \in DOMAIN transports
        /\ inv[i].sid \in DOMAIN sessionHeaders
        /\ tr[transports[inv[i].sid]].phase = "active"

\* the names of the upstream calls issued so far, oldest first
CallsIssued == [n \in 1..Len(wire) |-> wire[n].call]

\* the operations whose arguments are validated against a schema
ValidatedOperations ==
    {"getEmailList", "getEmailDetails", "listEvents", "createEvent",
     "declineEvent"}

\* C11: list, detail, list-events, create-event and decline-event, called
\* with arguments their schema rejects, throw VALIDATION_ERROR, and an
\* invocation that ended in VALIDATION_ERROR has issued no upstream call.
C11_ValidationPrecedesUpstream ==
    /\ (/\ svc.pc \notin {"none", "called"}
        /\ svc.op \in ValidatedOperations
        /\ ~SchemaAccepts(svc.op, svc.args))
       => /\ svc.pc = "thrown"
          /\ svc.thrown.code = "VALIDATION_ERROR"
          /\ svc.thrown.class = IF IsMail(svc.op) THEN "GmailServiceError"
                                                   ELSE "GCalendarServiceError"
          /\ wire = <<>>
    /\ (svc.pc = "thrown" /\ svc.thrown.code = "VALIDATION_ERROR")
       => wire = <<>>

\* C11 witness: create-event with an attendee that is no e-mail address
\* has thrown VALIDATION_ERROR without an upstream call
C11_Witness ==
    /\ svc.pc = "thrown"
    /\ svc.op = "createEvent"
    /\ svc.args.summary.present /\ svc.args.start.present
    /\ svc.args.end.present
    /\ svc.args.attendees = <<AddrAnn, NotAnAddr>>
    /\ svc.thrown.code = "VALIDATION_ERROR"
    /\ wire = <<>>

\* the operations of the calendar client
CalendarOperations ==
    {"listCalendars", "listEvents", "createEvent", "declineEvent"}

\* C12: the code of a thrown error follows from what was caught, in this
\* order: a schema failure gives VALIDATION_ERROR; a typed error of the
\* client is thrown on unchanged; 401 gives AUTHENTICATION_FAILED; 403
\* PERMISSION_DENIED; 404 EMAIL_NOT_FOUND in mail detail and NOT_FOUND in the
\* calendar operations; 429 RATE_LIMIT_EXCEEDED; everything else, a 404 of
\* mail list or batch fetch included, API_ERROR with the upstream status and
\* message.  (getEmailHeaders has no upstream call of its own: the boundary
\* is the one of the getEmailDetails call it makes, whose translated error
\* it then wraps.)
C12_ErrorTranslation ==
    (svc.pc = "thrown" /\ svc.op # "getEmailHeaders") =>
      LET c == svc.cause
          t == svc.thrown
      IN  IF c.kind = "ZodError" THEN t.code = "VALIDATION_ERROR"
          ELSE IF c.kind = "ServiceError" THEN t = c
          ELSE IF c.status = 401 THEN t.code = "AUTHENTICATION_FAILED"
          ELSE IF c.status = 403 THEN t.code = "PERMISSION_DENIED"
          ELSE IF c.status = 404 /\ svc.op = "getEmailDetails"
          THEN t.code = "EMAIL_NOT_FOUND"
          ELSE IF c.status = 404 /\ svc.op \in CalendarOperations
          THEN t.code = "NOT_FOUND"
          ELSE IF c.status = 429 THEN t.code = "RATE_LIMIT_EXCEEDED"
          ELSE /\ t.code = "API_ERROR"
               /\ t.status = c.status
               /\ \E n \in 1..Len(t.message) :
                    SubSeq(t.message, n, Len(t.message)) = c.message

\* C12 witness: a 404 of the batch fetch inside list has become API_ERROR
\* with status 404
C12_Witness ==
    /\ svc.pc = "thrown"
    /\ svc.op = "getEmailList"
    /\ CallsIssued = <<"messages.list", "batch">>
    /\ svc.cause = HttpError(404)
    /\ svc.thrown.code = "API_ERROR"
    /\ svc.thrown.status = 404

\* C13 as stated: a call of any operation answered 429 ends the invocation
\* with RATE_LIMIT_EXCEEDED; no upstream call is issued twice; the step in
\* which an invocation throws issues no call and nothing follows it;
\* decline-event rate-limited on the identity lookup or the event fetch has
\* issued no patch.
C13_NoRetryAfterRateLimit ==
    /\ [](\A m, n \in 1..Len(wire) : m # n => wire[m].call # wire[n].call)
    /\ []((svc.pc = "thrown" /\ svc.cause = HttpError(429))
          => /\ svc.thrown.code = "RATE_LIMIT_EXCEEDED"
             /\ (svc.op = "declineEvent" /\ Len(wire) < 3)
                => \A n \in 1..Len(wire) : wire[n].call # "events.patch")
    /\ [][ /\ svc'.pc = "thrown" => wire' = wire
           /\ svc.pc = "thrown" => (svc' = svc /\ wire' = wire)
         ]_vars

\* the part of C13 that holds of every operation: as above, with the code
\* of a rate-limited getEmailHeaders being HEADERS_FETCH_ERROR (the wrap of
\* the RATE_LIMIT_EXCEEDED error of getEmailDetails); it too issues no
\* further call.
C13_NoRetryAndCodeAfterRateLimit ==
    /\ [](\A m, n \in 1..Len(wire) : m # n => wire[m].call # wire[n].call)
    /\ []((svc.pc = "thrown" /\ svc.cause = HttpError(429))
          => /\ svc.thrown.code = IF svc.op = "getEmailHeaders"
                                  THEN "HEADERS_FETCH_ERROR"
                                  ELSE "RATE_LIMIT_EXCEEDED"
             /\ (svc.op = "declineEvent" /\ Len(wire) < 3)
                => \A n \in 1..Len(wire) : wire[n].call # "events.patch")
    /\ [][ /\ svc'.pc = "thrown" => wire' = wire
           /\ svc.pc = "thrown" => (svc' = svc /\ wire' = wire)
         ]_vars

\* C13 witness: decline-event was rate-limited on the event fetch
C13_Witness ==
    /\ svc.pc = "thrown"
    /\ svc.op = "declineEvent"
    /\ svc.cause = HttpError(429)
    /\ svc.thrown.code = "RATE_LIMIT_EXCEEDED"
    /\ CallsIssued = <<"getTokenInfo", "events.get">>

\* the identifiers handed to the batch fetcher, once that has happened
BatchHanded ==
    IF svc.op = "batchGetEmailDetails"
    THEN svc.pc # "called"
    ELSE /\ svc.op = "getEmailList"
         /\ svc.list.data
         /\ svc.args.fetchDetails
         /\ svc.list.messages.present
         /\ svc.list.messages.ids # <<>>
BatchIdentifiers ==
    IF svc.op = "batchGetEmailDetails" THEN svc.args.messageIds
                                       ELSE svc.list.messages.ids

\* the batch calls among the upstream calls issued
BatchCalls == SelectSeq(wire, LAMBDA c : c.call = "batch")

\* C14: the batch fetcher, handed more than 100 identifiers, throws
\* BATCH_SIZE_EXCEEDED, and handed none returns the empty list, without a
\* batch call in either case; handed 1 to 100 it issues exactly one batch
\* call with one sub-request per identifier, in order, the k-th tagged with
\* its index counted from 0.
C14_BatchSizeAndShape ==
    (svc.pc # "none" /\ BatchHanded) =>
      LET ids == BatchIdentifiers
      IN  IF Len(ids) > 100
          THEN /\ svc.pc = "thrown"
               /\ svc.thrown.code = "BATCH_SIZE_EXCEEDED"
               /\ BatchCalls = <<>>
          ELSE IF Len(ids) = 0
          THEN /\ svc.pc = "returned"
               /\ svc.result = <<>>
               /\ wire = <<>>
          ELSE /\ Len(BatchCalls) = 1
               /\ Len(BatchCalls[1].body) = Len(ids)
               /\ \A k \in 1..Len(ids) :
                    /\ BatchCalls[1].body[k].get = ids[k]
                    /\ BatchCalls[1].body[k].contentId = k - 1

\* C14 witness: a batch call for 100 identifiers is out, its last
\* sub-request tagged 99
C14_Witness ==
    /\ svc.op = "batchGetEmailDetails"
    /\ Len(svc.args.messageIds) = 100
    /\ svc.pc = "awaiting"
    /\ Len(wire) = 1
    /\ Len(wire[1].body) = 100
    /\ wire[1].body[100].contentId = 99

\* the identities of a list of records
IdsOf(records) == [n \in 1..Len(records) |-> [id |-> records[n].id]]

\* the detail records a response should give: one per segment that holds a
\* message, in the order of the segments
RECURSIVE ExpectedDetails(_)
ExpectedDetails(segments) ==
    IF segments = <<>> THEN <<>>
    ELSE IF Head(segments) \in {"m1", "m2"}
    THEN <<[id |-> Head(segments)]>> \o ExpectedDetails(Tail(segments))
    ELSE ExpectedDetails(Tail(segments))

\* the batch fetcher was answered with a textual response whose Content-Type
\* declares a boundary
BatchAnswered ==
    /\ svc.pc \in {"returned", "thrown"}
    /\ svc.batch.dataKind \in {"string", "blob"}
    /\ IndexOf(svc.batch.contentType, <<"boundary=">>) # 0

\* C15: for a batch response with a declared boundary the fetcher returns,
\* in response order, exactly one detail record per segment holding a JSON
\* object that parses and carries no error; every other segment is skipped
\* and the batch still succeeds.
C15_OneRecordPerGoodSegment ==
    BatchAnswered =>
      /\ svc.pc = "returned"
      /\ IdsOf(IF svc.op = "getEmailList" THEN svc.result.messages
                                           ELSE svc.result)
           = ExpectedDetails(svc.batch.segments)

\* the upstream calls of getEmailList so far are in the order list, batch
ListThenBatch ==
    CallsIssued \in {<<>>, <<"messages.list">>, <<"messages.list", "batch">>}

\* C16: getEmailList issues messages.list first and the batch call only
\* after it, only when details were asked for and the page holds at least
\* one identifier; a page without identifiers is returned empty without a
\* batch call; every returned page carries the continuation token of the
\* list response (none when that is missing or empty) and its size estimate
\* (0 when that is missing).
C16_ListThenBatch ==
    svc.op = "getEmailList" =>
      /\ ListThenBatch
      /\ Len(wire) = 2
         => /\ svc.args.fetchDetails
            /\ svc.list.data
            /\ svc.list.messages.present
            /\ Len(svc.list.messages.ids) >= 1
      /\ (/\ svc.pc = "returned"
          /\ (~svc.list.messages.present \/ svc.list.messages.ids = <<>>))
         => /\ svc.result.messages = <<>>
            /\ CallsIssued = <<"messages.list">>
      /\ svc.pc = "returned"
         => /\ svc.result.nextPageToken =
                 (IF svc.list.nextPageToken.present
                     /\ svc.list.nextPageToken.v # <<>>
                  THEN svc.list.nextPageToken ELSE NoString)
            /\ svc.result.resultSizeEstimate =
                 (IF svc.list.resultSizeEstimate.present
                  THEN svc.list.resultSizeEstimate.v ELSE 0)

\* C16 witness: a page of two identifiers came back with details after the
\* calls list, batch, carrying the token and the estimate of the list call
C16_Witness ==
    /\ svc.op = "getEmailList"
    /\ svc.pc = "returned"
    /\ CallsIssued = <<"messages.list", "batch">>
    /\ Len(svc.list.messages.ids) = 2
    /\ IdsOf(svc.result.messages) = <<[id |-> "m1"], [id |-> "m2"]>>
    /\ svc.result.nextPageToken = Str(<<"p", "2">>)
    /\ svc.result.resultSizeEstimate = 7

\* the patch call of declineEvent, once issued
PatchIssued == Len(wire) = 3 /\ wire[3].call = "events.patch"

\* C19: the attendee list declineEvent patches the event with holds every
\* attendee other than the caller with the same status, in the same order;
\* when the caller was among them the list has the same length and each
\* entry of the caller is 'declined'; when the caller was not, the list is
\* the fetched one with one 'declined' entry of the caller appended; the
\* patch asks for notifications.
C19_DeclineRewritesOnlyCaller ==
    (svc.op = "declineEvent" /\ PatchIssued) =>
      LET me == svc.userEmail
          before == svc.event.attendees
          after == wire[3].attendees
          isOther(a) == a.email # me
          present == \E n \in 1..Len(before) : before[n].email = me
          declined == [email |-> me, responseStatus |-> "declined"]
      IN  /\ SelectSeq(after, isOther) = SelectSeq(before, isOther)
          /\ present
             => /\ Len(after) = Len(before)
                /\ \A n \in 1..Len(before) :
                     IF before[n].email = me
                     THEN after[n] = declined
                     ELSE after[n] = before[n]
          /\ ~present
             => /\ after = Append(before, declined)
                /\ Cardinality({n \in 1..Len(after) : after[n].email = me}) = 1
                /\ Len(after) = Len(before) + 1
          /\ wire[3].sendNotifications

\* C19 witness: the caller was not among two attendees and is appended
C19_Witness ==
    /\ svc.op = "declineEvent"
    /\ PatchIssued
    /\ svc.userEmail = AddrMe
    /\ svc.event.attendees =
         <<[email |-> AddrAnn, responseStatus |-> "accepted"],
           [email |-> AddrBob, responseStatus |-> "needsAction"]>>
    /\ wire[3].attendees =
         <<[email |-> AddrAnn, responseStatus |-> "accepted"],
           [email |-> AddrBob, responseStatus |-> "needsAction"],
           [email |-> AddrMe, responseStatus |-> "declined"]>>

\* C20: declineEvent issues getTokenInfo, then events.get, then
\* events.patch; when it throws with only the identity lookup issued, it
\* throws USER_EMAIL_NOT_FOUND.
C20_IdentityFailureIsDistinct ==
    svc.op = "declineEvent" =>
      /\ CallsIssued \in {<<>>, <<"getTokenInfo">>,
                          <<"getTokenInfo", "events.get">>,
                          <<"getTokenInfo", "events.get", "events.patch">>}
      /\ (svc.pc = "thrown" /\ CallsIssued = <<"getTokenInfo">>)
         => svc.thrown.code = "USER_EMAIL_NOT_FOUND"

\* the positions at which a whitespace-separated word of the text begins
WordStarts(text) ==
    {i \in 1..Len(text) :
        /\ text[i] \notin Whitespace
        /\ i = 1 \/ text[i - 1] \in Whitespace}

\* the word that begins at position i: up to the next whitespace or the end
WordAt(text, i) ==
    LET ends == {j \in i..Len(text) :
                    /\ \A k \in i..j : text[k] \notin Whitespace
                    /\ j = Len(text) \/ text[j + 1] \in Whitespace}
    IN  SubSeq(text, i, CHOOSE j \in ends : TRUE)

\* the first n words of a text, each followed by the separator but the last
RECURSIVE FirstWordsJoined(_, _, _)
FirstWordsJoined(text, starts, n) ==
    LET i == CHOOSE k \in starts : \A l \in starts : k <= l
    IN  IF n = 1 THEN WordAt(text, i)
        ELSE WordAt(text, i) \o <<" ">>
                 \o FirstWordsJoined(text, starts \ {i}, n - 1)

\* C17: once a text has been truncated at a cap N >= 1, a text of more than
\* N whitespace-separated words has become its first N words joined by
\* single spaces and followed by the three-dot suffix, a text of at most N
\* words is returned verbatim, and truncating the result again at the same
\* or a larger cap returns it unchanged.
C17_TruncateContract ==
    /\ trunc.pc \in {"truncated", "again"} =>
         LET starts == WordStarts(trunc.text)
         IN  IF Cardinality(starts) > trunc.maxWords
             THEN trunc.first.truncatedText =
                      FirstWordsJoined(trunc.text, starts, trunc.maxWords)
                          \o <<".", ".", ".">>
             ELSE trunc.first.truncatedText = trunc.text
    /\ trunc.pc = "again" =>
         trunc.second.truncatedText = trunc.first.truncatedText

\* a text whose words were separated by more than a single space has been
\* cut, and cut again at a larger cap
C17_Witness ==
    /\ trunc.pc = "again"
    /\ trunc.text = <<"a", " ", CRLF, "a", ".">>
    /\ trunc.maxWords = 1
    /\ trunc.cap > trunc.maxWords
    /\ trunc.first.isTruncated

\* the parts of a list in depth-first pre-order
RECURSIVE PreOrder(_)
PreOrder(parts) ==
    IF parts = <<>> THEN <<>>
    ELSE <<Head(parts)>>
             \o (IF Head(parts).parts.present
                 THEN PreOrder(Head(parts).parts.list) ELSE <<>>)
             \o PreOrder(Tail(parts))

\* the plain-text parts with inline data whose decoding succeeds, the
\* payload first
DecodableTextParts(message) ==
    SelectSeq(PreOrder(<<message.payload>>),
              LAMBDA part : /\ IsTextPartWithData(part)
                            /\ ~decodeBase64Url(part.data).threw)

\* C18: the body extracted from a message is the decoded data of the first
\* plain-text part with inline data in depth-first pre-order, the payload
\* first; a part whose decoding fails is passed over and the search goes on
\* with all the parts not yet visited, its own children included; the
\* snippet is returned only when the search finds no such part.
C18_FirstPlainTextPartInPreOrder ==
    extract.pc = "returned" =>
        LET found == DecodableTextParts(extract.message)
        IN  IF found = <<>>
            THEN extract.result = extract.message.snippet
            ELSE extract.result = decodeBase64Url(found[1].data).text

\* the endpoint carries exactly one of the two forms: a date, or a
\* date-time (with or without a time zone)
ExactlyOneForm(endpoint) ==
    /\ endpoint.present
    /\ endpoint.date.present # endpoint.dateTime.present
    /\ endpoint.timeZone.present => endpoint.dateTime.present

\* C21: a create-event whose start or end carries neither form or both
\* forms never reaches the upstream insert call and ends in
\* VALIDATION_ERROR.
C21_EndpointCarriesExactlyOneForm ==
    (/\ svc.op = "createEvent"
     /\ svc.pc \notin {"none", "called"}
     /\ ~(ExactlyOneForm(svc.args.start) /\ ExactlyOneForm(svc.args.end)))
    => /\ wire = <<>>
       /\ svc.pc = "thrown"
       /\ svc.thrown.code = "VALIDATION_ERROR"

\* a get-email-detail, direct or through the detail tool, whose tool call or
\* options carried this word cap has returned a detail record
DetailReturned(gateway, cap) ==
    /\ svc.op = "getEmailDetails"
    /\ svc.pc = "returned"
    /\ svc.gateway = gateway
    /\ svc.raw.maxWords = cap

\* the text cut after its n-th word (the words being separated by single
\* characters of whitespace) and followed by the three-dot suffix
CutAfterWord(text, n) ==
    LET starts == WordStarts(text)
        first == CHOOSE i \in starts : \A j \in starts : i <= j
        last == CHOOSE i \in starts :
                    Cardinality({j \in starts : j <= i}) = n
        ends == {e \in last..Len(text) :
                    /\ text[e] \notin Whitespace
                    /\ e = Len(text) \/ text[e + 1] \in Whitespace}
    IN  SubSeq(text, first, CHOOSE e \in ends : \A f \in ends : e <= f)
            \o <<".", ".", ".">>

\* what get-email-detail is to return as the text body of the answered
\* message under a word cap (0: no cap)
BodyUnderCap(cap) ==
    LET body == extractTextContent(svc.message)
    IN  IF cap > 0 /\ Cardinality(WordStarts(body)) > cap
        THEN CutAfterWord(body, cap)
        ELSE body

\* C22: a get-email-detail invoked without a word cap returns the extracted
\* body cut at 300 words, and one invoked with cap 0 returns it whole, when
\* the mail client is called directly and when it is called through the
\* detail tool of the gateway.
C22_DefaultCapAndNoCap ==
    \A gateway \in BOOLEAN :
        /\ DetailReturned(gateway, NoNumber)
             => svc.result.textBody = BodyUnderCap(300)
        /\ DetailReturned(gateway, Num(0))
             => svc.result.textBody = BodyUnderCap(0)

\* the handling of a request carrying session id k throws: the registry
\* lookup yields a value that is no transport
HandlingThrows(k) ==
    /\ ~Falsy(k)
    /\ TransportsLookup(k)
    /\ k \notin DOMAIN transports

\* C23: a POST, GET or DELETE on /mcp whose session or transport handling
\* throws before a response is started is answered with the generic 500
\* response by the request handler, and no such exception escapes the
\* handler.
C23_ExceptionsAnsweredOnce ==
    [][ /\ \A k \in RequestKeys :
             (RequestWith(k) /\ HandlingThrows(k))
                 => resp' = Response("500", k)
        /\ \A n \in 1..MaxSessions :
             ConnectThrows(n) => resp'.status = "500"
        /\ resp'.status # "unhandled"
      ]_vars

\* C24: every call of datetime_converter on a string that denotes no date
\* throws the invalid-date error and returns no text; on a string that
\* denotes a date, two calls with formats among iso, utc and none return
\* the same ISO-8601 string, and a call with format unix returns the whole
\* number n of seconds with 1000 n <= milliseconds < 1000 (n + 1); the
\* tool runs without any session and leaves the registry empty.
C24_ConverterContract ==
    /\ \A n \in 1..Len(conv.calls) :
         LET call == conv.calls[n]
         IN  IF call.outcome.isNaN
             THEN /\ call.outcome.threw
                  /\ call.outcome.text = <<>>
                  /\ call.outcome.message[2]
                       = "Invalid date-time string provided."
             ELSE /\ ~call.outcome.threw
                  /\ call.outcome.text # <<>>
                  /\ call.format = "unix" =>
                       /\ 1000 * call.outcome.result <= call.outcome.time
                       /\ call.outcome.time < 1000 * (call.outcome.result + 1)
                  /\ \A m \in 1..Len(conv.calls) :
                       ({call.format, conv.calls[m].format}
                            \subseteq {"undefined", "iso", "utc"})
                       => conv.calls[m].outcome.text = call.outcome.text
    /\ conv.pc # "none" => (DOMAIN transports = {} /\ DOMAIN sessionHeaders = {})

\* the half second before the epoch has been converted to unix seconds and
\* to an ISO string
C24_Witness ==
    /\ Len(conv.calls) = 2
    /\ conv.datetime = <<"1969-12-31T23:59:", "5", "9", ".", "5", "0", "0", "Z">>
    /\ conv.calls[1].format = "unix"
    /\ conv.calls[1].outcome.text = <<"-", "1">>
    /\ conv.calls[2].format = "utc"
    /\ conv.calls[2].outcome.text = conv.datetime

\* C25: between handler steps the session ids with a transport entry are
\* exactly the session ids with a header entry.
C25_RegistriesHaveEqualKeys ==
    DOMAIN transports = DOMAIN sessionHeaders

\* the transport entry and the header entry of session id k
EntriesOf(k) ==
    [transport |-> IF k \in DOMAIN transports THEN <<transports[k]>> ELSE <<>>,
     headers |-> IF k \in DOMAIN sessionHeaders THEN <<sessionHeaders[k]>>
                                               ELSE <<>>]

\* the tokens of the clients built for the invocations of session k
TokensOf(k) == [i \in Slots |-> IF inv[i].sid = k THEN <<inv[i].tok>> ELSE <<>>]

\* a request that bears another session id than k has just been handled,
\* or the transport of another session has just closed
OtherSessionActs(k) ==
    \/ resp'.status # "none" /\ resp'.key # k
    \/ \E n \in 1..MaxSessions :
         /\ IdPool[n] # k
         /\ tr[n].phase # "closed"
         /\ tr'[n].phase = "closed"

\* C26: the header entry of a session changes only in a request that bears
\* its id (to that request's headers), in its own initialization (to the
\* initialization request's headers) or in its own closure; the client of a
\* tool invocation is built from the header entry of the invocation's own
\* session; and a request or a closure of another session changes neither
\* the transport entry, nor the header entry, nor the token of a client of
\* the session.
C26_SessionsAreIsolated ==
    [][ \A k \in Ids :
          /\ EntriesOf(k)'.headers # EntriesOf(k).headers
             => \/ \E h \in HeaderSet :
                     /\ \/ \E body \in Bodies : PostReuse(k, h, body)
                        \/ \E m \in Methods : SessionRequest(m, k, h)
                     /\ sessionHeaders'[k] = h
                \/ \E n \in 1..MaxSessions :
                     /\ IdPool[n] = k
                     /\ \/ SessionInitialized(n) /\ sessionHeaders'[k] = tr[n].hdr
                        \/ TransportClose(n)
          /\ \A i \in Slots :
               (inv[i].sid = k /\ inv[i].pc = "dispatched"
                               /\ inv'[i].pc = "awaiting")
               => /\ k \in DOMAIN sessionHeaders
                  /\ inv'[i].tok = extractBearerToken(sessionHeaders[k]).s
          /\ OtherSessionActs(k)
             => /\ EntriesOf(k)' = EntriesOf(k)
                /\ TokensOf(k)' = TokensOf(k)
      ]_vars

\* two sessions hold different credentials and a client has been built for
\* the first one with its own token after the second one sent a request
C26_Witness ==
    /\ IdPool[1] \in DOMAIN sessionHeaders
    /\ IdPool[2] \in DOMAIN sessionHeaders
    /\ sessionHeaders[IdPool[1]] = H_T1
    /\ sessionHeaders[IdPool[2]] = H_T2
    /\ resp = NoResponse
    /\ \E i \in Slots :
         /\ inv[i].sid = IdPool[1]
         /\ inv[i].pc = "awaiting"
         /\ inv[i].tok = TokenT1

(***************************************************************************)
(* The prefix between the extractor and the client factory.                *)
(***************************************************************************)
\* the stored authorization value extractBearerToken examines
ExaminedAuthorization(h) ==
    FirstValue(IF Truthy(h.authorization) THEN h.authorization
                                          ELSE h.Authorization)

\* C27: for every stored authorization value that starts with 'Bearer ', the
\* token bound to the upstream client is exactly the substring after that
\* first prefix, also when the substring itself starts with 'Bearer '.
C27_PrefixStrippedOnce ==
    \A i \in Slots :
        (/\ inv[i].pc = "awaiting"
         /\ inv[i].calls = 1
         /\ inv[i].sid \in DOMAIN sessionHeaders
         /\ CarriesBearer(ExaminedAuthorization(sessionHeaders[inv[i].sid])))
        => inv[i].tok =
             Substring(ExaminedAuthorization(sessionHeaders[inv[i].sid]).s,
                       BearerPrefixLength)

(***************************************************************************)
(* Interleaved declines.                                                   *)
(***************************************************************************)
\* the attendee list of an event; a missing list counts as empty
AttendeesOf(event) == IF event.present THEN event.attendees ELSE <<>>

\* both invocations returned from their patch
BothDeclinesReturned ==
    dec # <<>> /\ \A p \in DOMAIN dec : dec[p].pc = "returned"

\* C28: after two interleaved declineEvent invocations by different callers
\* on the same event, the attendee list held upstream shows both callers as
\* 'declined' and every other attendee with its original status.
C28_NoDeclineIsLost ==
    BothDeclinesReturned =>
      LET held == AttendeesOf(cal.event)
          original == AttendeesOf(cal.original)
      IN  /\ \A p \in DOMAIN dec :
               \E n \in 1..Len(held) :
                   held[n] = [email |-> dec[p].caller,
                              responseStatus |-> "declined"]
          /\ \A n \in 1..Len(original) :
               (\A p \in DOMAIN dec : original[n].email # dec[p].caller)
               => \E m \in 1..Len(held) : held[m] = original[n]

(***************************************************************************)
(* The schema of a tool against the schema of its service operation.       *)
(***************************************************************************)
\* C29: arguments the gateway schema of a tool accepts (defaults applied)
\* pass the validation of the service operation the tool dispatches to: no
\* such invocation fails with VALIDATION_ERROR.
C29_GatewayBoundsWithinServiceBounds ==
    (svc.pc = "thrown" /\ svc.gateway) => svc.thrown.code # "VALIDATION_ERROR"

(***************************************************************************)
(* getEmailHeaders.                                                        *)
(***************************************************************************)
\* C30: getEmailHeaders returns all headers of the message: each header of
\* the upstream message exactly once, in upstream order.
C30_AllHeadersReturned ==
    (svc.op = "getEmailHeaders" /\ svc.pc = "returned")
    => svc.result = svc.message.payload.headers

====
